---- MODULE Spec2Model ----
(***************************************************************************)
(* Browser client of the AI Council debate pipeline (static/js/app.js,     *)
(* static/js/session.js, static/js/voting.js).                             *)
(*                                                                         *)
(* The client is a set of event handlers over one global `state` object,   *)
(* the session module's log, the open EventSource streams and the HTTP     *)
(* requests in flight.  Every action below is one handler, run to its      *)
(* first `await` (or to its end); the continuation after an `await` is the *)
(* action that consumes the response.  The server is the environment: it   *)
(* answers requests and pushes events onto open streams, one stage of a    *)
(* session at a time.                                                      *)
(*                                                                         *)
(* Spec is the whole client.  SpecRun, SpecDiversify, SpecVoting,          *)
(* SpecSettings and SpecLog keep the handlers of one area each, which is   *)
(* what the properties at the end of the module are checked under.         *)
(***************************************************************************)
EXTENDS Integers, Sequences, FiniteSets, Bags

\* ------------------------------------------------------------------ bounds
MaxSessions == 1      \* sessions the server creates in one run of the model
MaxStreams == 2       \* EventSource objects open at the same time
MaxRequests == 2      \* HTTP requests in flight at the same time
MaxLog == 8           \* entries held by the session log
MaxCandidates == 1    \* candidates carried by one event
MaxVotes == 2         \* vote POSTs counted per session
MaxEvents == 6        \* events published in one session
MaxCards == 4         \* candidate cards in the voting view
MaxMessages == 4      \* chat messages created in one run of the model
MaxCalls == 3         \* updateTokenStats calls between two resets
MaxRound == 6         \* refinement rounds of a session

\* ------------------------------------------------------------------- state
VARIABLES
    sessionId,          \* state.sessionId; 0 is null                 (app.js:10)
    sessionActive,      \* state.sessionActive                        (app.js:11)
    currentMode,        \* state.currentMode                          (app.js:9)
    configWorkerCount,  \* state.config.worker_count                  (app.js:14)
    workerCountInput,   \* value of #setting-worker-count             (app.js:700)
    workers,            \* state.workers: the slot ids, in order      (app.js:13)
    currentView,        \* state.currentView                          (app.js:8)
    candidates,         \* state.candidates: its length, -1 undefined (session.js:488)
    diversifyEnabled,   \* #btn-diversify is not disabled             (session.js:288)
    modals,             \* feedback modals on display                 (session.js:1154)
    logEntries,         \* the session module's logEntries            (session.js:35)
    streams,            \* EventSource objects that are not closed (a bag)
    requests,           \* HTTP requests in flight (a bag)
    nextSid,            \* sessions the server has created so far
    votePosts,          \* POST /session/{id}/vote issued, per session
    finalizeOpened,     \* finalize streams opened, per session
    lastAlert,          \* alert() shown by the handler that ran last, or "none"
    finalContent,       \* what #final-content shows                  (voting.js:641)
    stored,             \* sessionStorage: session id, active flag, view (app.js:98)
    checkpoint,         \* server: the checkpoint each session is suspended at
    restoreTimers,      \* setTimeout callbacks of restoreFullSession still to run
    engine,             \* server: the Stage Engine's position in the pipeline
    roundInputs,        \* values of #setting-refinement-rounds, #setting-argument-rounds (app.js:796)
    pipelineSettings,   \* state.pipelineSettings                    (app.js:815)
    sessionConfig,      \* server: the configuration each session was created from
    currentSwapWorker,  \* currentSwapWorker: the slot of the swap modal, 0 is null (app.js:383)
    persona,            \* state.workers[i].persona.id per slot, 0 is Default (app.js:337)
    cardPersona,        \* the persona each worker card shows     (app.js:358)
    serverPersona,      \* server: the persona bound to each slot, per session
    auditSwaps,         \* server: the swap entries in each session's log
    ballot,             \* server: the machine scores and human ranks to aggregate
    outcome,            \* server: the Vote Aggregator's combined scores and winner
    publisher,          \* server: a session's published events and the page's stream of them
    votingState,        \* votingState.votes and the candidate cards buildVotingUI built (voting.js:10)
    chat,               \* the roster members marked active, pendingMessages and the chat timeline (session.js:825)
    tokenStats,
    roundModal,
    activeView

vars == <<sessionId, sessionActive, currentMode, configWorkerCount, workerCountInput,
          workers, currentView, candidates, diversifyEnabled, modals, logEntries,
          streams, requests, nextSid, votePosts, finalizeOpened, lastAlert,
          finalContent, stored, checkpoint, restoreTimers, engine, roundInputs,
          pipelineSettings, sessionConfig, currentSwapWorker, persona,
          cardPersona, serverPersona, auditSwaps, ballot, outcome, publisher,
          votingState, chat, tokenStats, roundModal, activeView>>

\* The Vote Aggregator's input and result and the Event Publisher.
serviceVars == <<ballot, outcome, publisher>>

\* The swap modal, the persona bindings of the page and of the server.
swapVars == <<currentSwapWorker, persona, cardPersona, serverPersona, auditSwaps>>

\* The pipeline settings of the page and of the sessions created.
settingsVars == <<roundInputs, pipelineSettings, sessionConfig>>

\* What the swap modal leaves alone of the page's state.
clientState ==
    <<sessionId, sessionActive, currentMode, configWorkerCount, workerCountInput,
      workers, currentView, candidates, diversifyEnabled, modals, nextSid,
      votePosts, finalizeOpened, finalContent>>

\* The page's storage, the server's checkpoints and the restore timers.
persistVars == <<stored, checkpoint, restoreTimers>>

Modes == {"16GB", "32GB"}
SessionIds == 1..MaxSessions
NoSession == 0
Undefined == 0 - 1

\* ------------------------------------------------- round-feedback modal
\* currentRound, totalRounds, the text of #btn-continue-round and the
\* continuation last logged by submitRoundFeedback, before any
\* awaiting_round_feedback event.
NoRoundModal == [round |-> 0, total |-> 2, button |-> "none", announced |-> "none"]

\* showRoundFeedbackModal: the text of the continue button for round r of t.
ContinueButton(r, t) ==
    IF r >= t - 1 THEN "Proceed to Synthesis" ELSE "Continue to Round"

\* submitRoundFeedback: what the log line announces, "round" standing for
\* `Continuing to round ${currentRound + 1}...`.
ContinueLine(skipToSynthesis, r, t) ==
    IF skipToSynthesis THEN "skip"
    ELSE IF r < t THEN "round" ELSE "synthesis"

\* ------------------------------------------------------------ token stats
\* The token counters of state.tokenStats as the page starts with them and
\* as resetTokenStats leaves them.
NoTokenStats == [totalTokens |-> 0, inputTokens |-> 0, outputTokens |-> 0, callCount |-> 0]

\* The token payloads of an event: input_tokens and output_tokens (0 when
\* missing) and total_tokens, Undefined when the payload has none.
TokenData ==
    [input_tokens : 0..1, output_tokens : 0..1, total_tokens : {Undefined, 1, 2}]

\* updateTokenStats(tokenData): the counters after the call.
UpdateTokenStats(stats, tokenData) ==
    LET inputTokens == stats.inputTokens + tokenData.input_tokens
        outputTokens == stats.outputTokens + tokenData.output_tokens
    IN  [totalTokens |-> IF tokenData.total_tokens # Undefined
                         THEN stats.totalTokens + tokenData.total_tokens
                         ELSE inputTokens + outputTokens,
         inputTokens |-> inputTokens,
         outputTokens |-> outputTokens,
         callCount |-> stats.callCount + 1]

\* --------------------------------------------------------------- the log
\* One entry of logEntries: appendLog's stage, content and type arguments
\* (workerId and personaName are null in every entry modelled here).
LogEntry(stage, content, type) == [stage |-> stage, content |-> content, type |-> type]

\* appendLog pushes the entry at the end of logEntries.
AppendLog(log, stage, content, type) == Append(log, LogEntry(stage, content, type))

\* clearLog empties logEntries.
ClearLog(log) == << >>

IsPrefix(s, t) == Len(s) <= Len(t) /\ \A i \in 1..Len(s) : s[i] = t[i]

\* ------------------------------------------------------------ worker cards
\* The server's worker_count for a RAM mode (README "RAM Modes").
ModeWorkerCount(mode) == IF mode = "32GB" THEN 3 ELSE 2

\* initializeWorkerCards rebuilds state.workers as worker_1..worker_n.
InitializeWorkerCards(cfgCount, mode) ==
    LET n == IF cfgCount # 0 THEN cfgCount ELSE (IF mode = "32GB" THEN 3 ELSE 2)
    IN  [i \in 1..n |-> i]

\* The personas the server lists (state.personas), by id.
NumPersonas == 2
Personas == 1..NumPersonas

\* initializeWorkerCards binds slot i to state.personas[i], or to the Default
\* persona (id null) when there is none.
InitialPersonas(ws) == [i \in DOMAIN ws |-> IF i \in Personas THEN i ELSE 0]

\* The most workers the settings handlers allow in a RAM mode.
MaxWorkers(mode) == IF mode = "32GB" THEN 4 ELSE 3

Min(a, b) == IF a < b THEN a ELSE b
Max(a, b) == IF a > b THEN a ELSE b

\* --------------------------------------------------------------- requests
\* A session configuration: worker count, refinement rounds, argument rounds.
Config(w, r, a) == [worker_count |-> w, refinement_rounds |-> r, argument_rounds |-> a]
NoConfig == Config(0, 0, 0)

\* The server's record of the configuration and RAM mode a session was
\* created with.
Created(cfg, mode) == [cfg |-> cfg, mode |-> mode]

\* `x || d` on numbers: 0 and NaN (modelled as 0) give the default.
OrDefault(x, d) == IF x # 0 THEN x ELSE d

\* The round settings updateSettingsFromConfig writes into the inputs.
DefaultRounds == [refinement |-> 3, argument |-> 1]

\* updatePipelineSettings reads the inputs into state.pipelineSettings.
UpdatePipelineSettings(workerCount, rounds) ==
    Config(OrDefault(workerCount, 2), OrDefault(rounds.refinement, 3),
           OrDefault(rounds.argument, 1))

\* The configuration startSession posts: the pipeline settings, with the
\* number of worker cards and the chat view's inputs as fallbacks.
StartConfig ==
    Config(OrDefault(pipelineSettings.worker_count, OrDefault(Len(workers), 2)),
           OrDefault(pipelineSettings.refinement_rounds, 2),
           OrDefault(pipelineSettings.argument_rounds, 1))

Request(op, sid, arg) ==
    [op |-> op, sid |-> sid, arg |-> arg, cfg |-> NoConfig, personas |-> << >>,
     slot |-> 0, persona |-> 0]
Issue(r) == requests (+) SetToBag({r})
Answer(r) == requests (-) SetToBag({r})
CanIssue == BagCardinality(requests) < MaxRequests
InFlight(op) == {r \in BagToSet(requests) : r.op = op}

\* ---------------------------------------------------------------- streams
\* An open EventSource: the endpoint it was opened on, the session id in its
\* URL, the type of the last event it delivered and, for a finalize stream,
\* whether the handler's local finalOutput has been set.
Stream(kind, sid) == [kind |-> kind, sid |-> sid, last |-> "none", out |-> FALSE]
CanOpen == BagCardinality(streams) < MaxStreams
Open(s) == streams (+) SetToBag({s})
Close(s) == streams (-) SetToBag({s})
Delivered(s, type) == Close(s) (+) SetToBag({[s EXCEPT !.last = type]})

\* The view the page's markup shows when it is loaded, the one the initial
\* state.currentView names.
DefaultView == "session"

\* ------------------------------------------------------ session persistence
\* sessionStorage without a stored session (clearSessionState).
NoStored == [sid |-> NoSession, active |-> FALSE, view |-> "none"]

\* A clearSessionState that removes nothing.
StorageKept == stored

\* sessionStorage after clearSessionState.
ClearSessionState == NoStored

\* sessionStorage after saveSessionState.
SaveSessionState(sid, active, view) ==
    IF sid # NoSession THEN [sid |-> sid, active |-> active, view |-> view]
    ELSE ClearSessionState

\* The server's record of where a session is suspended: the checkpoint kind
\* and, at user_voting, the number of candidates.
Checkpoint(kind, cand) == [kind |-> kind, cand |-> cand]
NoCheckpoint == Checkpoint("none", Undefined)

\* The round limits a session can be configured with: refinement rounds R,
\* collaboration rounds C (the stage table knows three), argument rounds A.
RefinementRounds == 1..5
CollaborationRounds == 1..3
ArgumentRounds == 1..3

\* The Synthesizer's classifications at the compatibility check.
CompatibilityLevels == {"compatible", "partially_compatible", "incompatible"}

\* The stages that run in rounds, each round ending in a checkpoint.
RoundStages == {"worker_refinement", "collaboration_round", "argumentation_round"}

\* The configurable worker counts and the stages that execute workers.
WorkerCounts == 2..4
WorkerStages ==
    {"worker_drafts", "worker_refinement", "collaboration_round", "argumentation_round"}

\* The engine's position before a session is started: the stage, the round within it, whether it is
\* halted at the stage's checkpoint, the round limits, the classification
\* and the checkpoints emitted so far per round stage; the number of worker
\* slots, the slots invoked so far in the current stage (or round) in the
\* order of invocation, and the slots whose invocation has not returned yet.
EngineIdle ==
    [stage |-> "idle", round |-> 0, halted |-> FALSE,
     R |-> 1, C |-> 1, A |-> 1, compatibility |-> "none",
     checkpoints |-> [s \in RoundStages |-> 0],
     k |-> 0, calls |-> << >>, inflight |-> {}]

\* The candidates of a vote, by id, the machine scores (in tenths: 80 is
\* 8.0) and the human ranks (0 is skip or unranked).
Candidates == 1..3
MachineScores == {0, 50, 80, 100}
Ranks == 0..3

\* The chat of a freshly loaded page: no roster member is marked active,
\* pendingMessages is empty (0 for every worker), the timeline holds no
\* message and no message has been created.
NoChat ==
    [active |-> {}, pending |-> [w \in 1..4 |-> 0], messages |-> {}, made |-> 0]

\* initChatTimeline and updateWorkerRoster: the timeline is emptied and the
\* roster is rebuilt with no member active; pendingMessages is not touched.
InitChatTimeline(c) == [c EXCEPT !.messages = {}, !.active = {}]

\* The voting state of a page that has built no voting view: no candidate
\* cards, votes = {}, no feedback typed (overallFeedback stands for the
\* feedback fields), promptRating 0, the submit button as the page has it.
NoVotes ==
    [cards |-> 0, votes |-> [c \in {} |-> 0], overallFeedback |-> "",
     promptRating |-> 0, submitDisabled |-> FALSE]

\* No votes collected yet, nothing aggregated yet.
NoBallot == [n |-> 0, machine |-> << >>, rank |-> << >>]
NoOutcome == [combined |-> << >>, skips |-> << >>, winner |-> 0]

\* The events of one stage with two workers, in the order the engine
\* publishes them; event number seq of a session is of kind KindOf(seq).
StageEvents ==
    <<"stage_start", "worker_start", "worker_complete", "worker_start",
      "worker_complete", "stage_complete">>
KindOf(seq) == StageEvents[((seq - 1) % Len(StageEvents)) + 1]

\* Nothing published, no stream connected: the number of events published,
\* the number of the last event sent on the stream, the events sent and not
\* yet received, the last event the page received (which it names when it
\* connects again), whether the stream is connected, the event after which
\* the stream was connected last, and the events the page handled, in order.
NoPublisher ==
    [published |-> 0, sent |-> 0, wire |-> << >>, acked |-> 0, open |-> FALSE,
     resumedAt |-> 0, handled |-> << >>]

Init ==
    /\ sessionId = NoSession
    /\ sessionActive = FALSE
    /\ currentMode = "16GB"
    /\ configWorkerCount = ModeWorkerCount("16GB")
    /\ workerCountInput = ModeWorkerCount("16GB")
    /\ workers = InitializeWorkerCards(ModeWorkerCount("16GB"), "16GB")
    /\ currentView = "session"
    /\ candidates = Undefined
    /\ diversifyEnabled = FALSE
    /\ modals = {}
    /\ logEntries = << >>
    /\ streams = EmptyBag
    /\ requests = EmptyBag
    /\ nextSid = 0
    /\ votePosts = [s \in SessionIds |-> 0]
    /\ finalizeOpened = [s \in SessionIds |-> 0]
    /\ lastAlert = "none"
    /\ finalContent = "empty"
    /\ stored = NoStored
    /\ checkpoint = [s \in SessionIds |-> NoCheckpoint]
    /\ restoreTimers = << >>
    /\ engine = EngineIdle
    /\ roundInputs = DefaultRounds
    /\ pipelineSettings = UpdatePipelineSettings(ModeWorkerCount("16GB"), DefaultRounds)
    /\ sessionConfig = [s \in SessionIds |-> Created(NoConfig, "16GB")]
    /\ currentSwapWorker = 0
    /\ persona = InitialPersonas(InitializeWorkerCards(ModeWorkerCount("16GB"), "16GB"))
    /\ cardPersona = InitialPersonas(InitializeWorkerCards(ModeWorkerCount("16GB"), "16GB"))
    /\ serverPersona = [s \in SessionIds |-> << >>]
    /\ auditSwaps = [s \in SessionIds |-> 0]
    /\ ballot = NoBallot
    /\ outcome = NoOutcome
    /\ publisher = NoPublisher
    /\ votingState = NoVotes
    /\ chat = NoChat
    /\ tokenStats = NoTokenStats
    /\ roundModal = NoRoundModal
    /\ activeView = DefaultView

\* ----------------------------------------------------------- startSession
\* The start button and the prompt input are disabled by updateSessionUI
\* exactly while a session is active.
StartEnabled == ~(sessionActive /\ sessionId # NoSession)

\* startSession up to its POST /session/start.
StartSession(prompt) ==
    /\ StartEnabled
    /\ IF prompt = ""
       THEN /\ lastAlert' = "Please enter a prompt"
            /\ UNCHANGED <<logEntries, requests, chat>>
       ELSE /\ CanIssue
            /\ logEntries' = AppendLog(ClearLog(logEntries), "system",
                                       "Starting new session", "info")
            /\ chat' = InitChatTimeline(chat)
            /\ requests' = Issue([Request("start", NoSession, "-")
                                       EXCEPT !.cfg = StartConfig, !.personas = persona])
            /\ lastAlert' = "none"
    /\ UNCHANGED <<sessionId, sessionActive, currentMode, configWorkerCount,
                   workerCountInput, workers, currentView, candidates,
                   diversifyEnabled, modals, streams, nextSid, votePosts,
                   finalizeOpened, finalContent>>
    /\ UNCHANGED persistVars
    /\ UNCHANGED engine
    /\ UNCHANGED settingsVars
    /\ UNCHANGED swapVars
    /\ UNCHANGED serviceVars
    /\ UNCHANGED votingState
    /\ UNCHANGED tokenStats
    /\ UNCHANGED roundModal
    /\ UNCHANGED activeView

\* A server that creates a session from any configuration.
AnyConfig(cfg, mode) == TRUE

\* The configurations the server accepts: anything else is a
\* ConfigurationError, rejected before session start.
ValidConfig(cfg, mode) ==
    /\ cfg.worker_count \in 2..MaxWorkers(mode)
    /\ cfg.refinement_rounds \in RefinementRounds
    /\ cfg.argument_rounds \in ArgumentRounds

\* startSession after the POST: the session is recorded, marked active and
\* runPipeline opens the run stream; a failed POST is logged and alerted.
StartSessionResponse(r, ok) ==
    /\ r \in InFlight("start")
    /\ Len(logEntries) < MaxLog
    /\ requests' = Answer(r)
    /\ ok => ValidConfig(r.cfg, currentMode)
    /\ IF ok
       THEN /\ nextSid < MaxSessions
            /\ CanOpen
            /\ sessionConfig' = [sessionConfig EXCEPT ![nextSid + 1] = Created(r.cfg, currentMode)]
            /\ nextSid' = nextSid + 1
            /\ sessionId' = nextSid + 1
            /\ sessionActive' = TRUE
            /\ logEntries' = AppendLog(logEntries, "system", "Session created", "info")
            /\ diversifyEnabled' = TRUE
            /\ streams' = Open(Stream("run", nextSid + 1))
            /\ lastAlert' = "none"
       ELSE /\ logEntries' = AppendLog(logEntries, "system", "Error", "error")
            /\ lastAlert' = "Failed to start session"
            /\ UNCHANGED <<nextSid, sessionId, sessionActive, diversifyEnabled, streams,
                           sessionConfig>>
    /\ UNCHANGED <<currentMode, configWorkerCount, workerCountInput, workers,
                   currentView, candidates, modals, votePosts, finalizeOpened,
                   finalContent, roundInputs, pipelineSettings>>
    /\ stored' = IF ok THEN SaveSessionState(nextSid + 1, TRUE, currentView) ELSE stored
    /\ UNCHANGED <<checkpoint, restoreTimers>>
    /\ UNCHANGED engine
    /\ serverPersona' = IF ok THEN [serverPersona EXCEPT ![nextSid + 1] = r.personas]
                        ELSE serverPersona
    /\ UNCHANGED <<currentSwapWorker, persona, cardPersona, auditSwaps>>
    /\ UNCHANGED serviceVars
    /\ UNCHANGED votingState
    /\ UNCHANGED chat
    /\ UNCHANGED tokenStats
    /\ UNCHANGED roundModal
    /\ UNCHANGED activeView

\* ----------------------------------------------------- events (environment)
Event(type, stage, cand) == [type |-> type, stage |-> stage, cand |-> cand]

AwaitingFeedback ==
    {"awaiting_round_feedback", "awaiting_collab_feedback", "awaiting_argument_feedback"}
Awaiting == AwaitingFeedback \cup {"awaiting_user_input"}
PipelineKinds == {"run", "continue", "diversify"}

\* The stage a stream of this kind reports in stage_start.
StageOf(kind) == IF kind = "diversify" THEN "diversify" ELSE "worker_drafts"

\* The Stage Engine is single-flight: a stage of a session is in progress
\* while a stream of that session has delivered stage_start and not yet what
\* ends the stage.
StageInProgress(sid) ==
    \E o \in BagToSet(streams) : o.sid = sid /\ o.last = "stage_start"

\* A server that starts a stage on any stream at any time.
AnyStreamMayStart(s) == TRUE

\* Whether the server may start a stage on stream s.
MayStartStage(s) == ~StageInProgress(s.sid)

\* The engine halts at a checkpoint until the session is resumed: a run or
\* continue stream of a suspended session starts no stage (a diversify is
\* triggered between rounds and is not held back).
Halted(s) ==
    /\ s.kind # "diversify"
    /\ s.sid \in SessionIds
    /\ checkpoint[s.sid].kind # "none"

\* What the server may push next on a pipeline stream: a stage starts, then
\* completes or fails; between stages the run reaches a checkpoint or its end
\* (a diversify stream just its end).  After a checkpoint, `complete` or
\* `error` the server sends nothing more and ends the connection.  A stream
\* opened for a null session id gets no event at all.
PipelineEvents(s) ==
    LET start == IF MayStartStage(s) /\ ~Halted(s)
                 THEN {Event("stage_start", StageOf(s.kind), Undefined)} ELSE {}
    IN  IF s.sid = NoSession THEN {}
        ELSE IF s.last = "none" THEN start \cup {Event("error", "-", Undefined)}
        ELSE IF s.last = "stage_start" THEN
            {Event("stage_complete", StageOf(s.kind), c) : c \in Undefined .. MaxCandidates}
                \cup {Event("error", "-", Undefined)}
        ELSE IF s.last = "stage_complete" THEN
            start
                \cup {Event("complete", "-", Undefined), Event("error", "-", Undefined)}
                \cup (IF s.kind = "diversify" THEN {}
                      ELSE {Event(t, "-", Undefined) : t \in AwaitingFeedback}
                           \cup {Event("awaiting_user_input", "user_voting", c) :
                                    c \in 0 .. MaxCandidates})
        ELSE {}

\* The checkpoint an awaiting_* event suspends the session at.
CheckpointOf(type) ==
    IF type = "awaiting_round_feedback" THEN "round"
    ELSE IF type = "awaiting_collab_feedback" THEN "collab"
    ELSE IF type = "awaiting_argument_feedback" THEN "argument"
    ELSE "user_voting"

\* The server's checkpoints after it has published ev on stream s.
Suspended(s, ev) ==
    IF ev.type \in Awaiting /\ s.sid \in SessionIds
    THEN [checkpoint EXCEPT ![s.sid] = Checkpoint(CheckpointOf(ev.type), ev.cand)]
    ELSE checkpoint

\* The server's checkpoints after the session was resumed with the user's input.
Resumed(sid) ==
    IF sid \in SessionIds THEN [checkpoint EXCEPT ![sid] = NoCheckpoint] ELSE checkpoint

\* -------------------------------------------------------- handlePipelineEvent
\* The stage table: the log stage of a known stage (STAGES[stage].logStage).
LogStage(stage) ==
    IF stage = "worker_drafts" THEN "draft"
    ELSE IF stage = "diversify" THEN "refinement"
    ELSE "system"

\* The log after handlePipelineEvent(ev).
EventLog(ev) ==
    IF ev.type = "stage_start" THEN
        AppendLog(logEntries, LogStage(ev.stage), "Stage started", "info")
    ELSE IF ev.type = "stage_complete" THEN
        (IF ev.cand # Undefined
         THEN AppendLog(logEntries, "synthesis", "Synthesized candidates", "info")
         ELSE logEntries)
    ELSE IF ev.type = "awaiting_user_input" THEN
        (IF ev.stage = "user_voting"
         THEN AppendLog(logEntries, "voting", "Pipeline complete - awaiting user vote", "info")
         ELSE logEntries)
    ELSE IF ev.type = "awaiting_round_feedback" THEN
        AppendLog(logEntries, "refinement", "Round complete - awaiting feedback", "info")
    ELSE IF ev.type = "awaiting_collab_feedback" THEN
        AppendLog(logEntries, "collaboration", "Collaboration round complete - awaiting feedback", "info")
    ELSE IF ev.type = "awaiting_argument_feedback" THEN
        AppendLog(logEntries, "argument", "Argument round complete - awaiting feedback", "info")
    ELSE IF ev.type = "error" THEN
        AppendLog(logEntries, "system", "Error", "error")
    ELSE IF ev.type = "complete" THEN
        AppendLog(logEntries, "system", "Operation complete", "info")
    ELSE logEntries

\* hasPromptRating: promptRating is neither null nor undefined.
HasPromptRating(rating) == rating # Undefined

\* updateSubmitButton's canSubmit for the voting state vs and n candidates
\* in state.candidates.
CanSubmit(vs, n) ==
    \/ n > 0
    \/ \E c \in DOMAIN vs.votes : vs.votes[c] > 0
    \/ vs.overallFeedback \notin {"", " "}
    \/ HasPromptRating(vs.promptRating)

\* updateSubmitButton.
UpdateSubmitButton(vs, n) == [vs EXCEPT !.submitDisabled = ~CanSubmit(vs, n)]

\* buildVotingUI(candidates, ...): the voting state is reset, one card per
\* candidate is built (none when candidates is missing) and the submit
\* button is updated.
BuildVotingUI(n) ==
    UpdateSubmitButton([cards |-> IF n = Undefined THEN 0 ELSE n,
                        votes |-> [c \in {} |-> 0], overallFeedback |-> "",
                        promptRating |-> 0, submitDisabled |-> FALSE], n)

\* state.candidates after handlePipelineEvent(ev).
EventCandidates(ev) ==
    IF ev.type = "stage_complete" /\ ev.cand # Undefined THEN ev.cand
    ELSE IF ev.type = "awaiting_user_input" /\ ev.stage = "user_voting" THEN ev.cand
    ELSE candidates

\* The view after handlePipelineEvent(ev): transitionToVoting shows the voting view.
EventView(ev) ==
    IF ev.type = "awaiting_user_input" /\ ev.stage = "user_voting" THEN "voting"
    ELSE currentView

\* The feedback modals on display after handlePipelineEvent(ev).
EventModals(ev) ==
    IF ev.type = "awaiting_round_feedback" THEN modals \cup {"round"}
    ELSE IF ev.type = "awaiting_collab_feedback" THEN modals \cup {"collab"}
    ELSE IF ev.type = "awaiting_argument_feedback" THEN modals \cup {"argument"}
    ELSE modals

\* handlePipelineEvent(ev): the switch over ev.type.
HandlePipelineEvent(ev) ==
    /\ Len(EventLog(ev)) <= MaxLog
    /\ logEntries' = EventLog(ev)
    /\ candidates' = EventCandidates(ev)
    /\ currentView' = EventView(ev)
    /\ activeView' = IF ev.type = "awaiting_user_input" /\ ev.stage = "user_voting"
                     THEN "voting" ELSE activeView
    /\ votingState' = IF ev.type = "awaiting_user_input" /\ ev.stage = "user_voting"
                       THEN BuildVotingUI(EventCandidates(ev))
                       ELSE votingState
    /\ modals' = EventModals(ev)
    /\ stored' = IF ev.type = "awaiting_user_input" /\ ev.stage = "user_voting"
                 THEN SaveSessionState(sessionId, sessionActive, "voting")
                 ELSE stored

\* The event types on which each onmessage handler closes its stream.
RunClosesOn == {"complete", "awaiting_user_input"}
ContinueClosesOn ==
    {"complete", "awaiting_user_input", "awaiting_round_feedback", "awaiting_argument_feedback"}
DiversifyClosesOn == {"complete", "error"}

\* The streams after stream s has delivered an event of this type to a handler
\* that closes on the types in closesOn.
AfterMessage(s, type, closesOn) ==
    IF type \in closesOn THEN Close(s) ELSE Delivered(s, type)

\* runPipeline's onmessage.
RunOnMessage(s, ev) ==
    /\ s.kind = "run"
    /\ ev \in PipelineEvents(s)
    /\ HandlePipelineEvent(ev)
    /\ streams' = AfterMessage(s, ev.type, RunClosesOn)
    /\ lastAlert' = "none"
    /\ UNCHANGED <<sessionId, sessionActive, currentMode, configWorkerCount,
                   workerCountInput, workers, diversifyEnabled, requests, nextSid,
                   votePosts, finalizeOpened, finalContent>>
    /\ checkpoint' = Suspended(s, ev)
    /\ UNCHANGED restoreTimers
    /\ UNCHANGED engine
    /\ UNCHANGED settingsVars
    /\ UNCHANGED swapVars
    /\ UNCHANGED serviceVars
    /\ UNCHANGED chat
    /\ UNCHANGED tokenStats
    /\ UNCHANGED roundModal

\* continuePipeline's onmessage.
ContinueOnMessage(s, ev) ==
    /\ s.kind = "continue"
    /\ ev \in PipelineEvents(s)
    /\ HandlePipelineEvent(ev)
    /\ streams' = AfterMessage(s, ev.type, ContinueClosesOn)
    /\ lastAlert' = "none"
    /\ UNCHANGED <<sessionId, sessionActive, currentMode, configWorkerCount,
                   workerCountInput, workers, diversifyEnabled, requests, nextSid,
                   votePosts, finalizeOpened, finalContent>>
    /\ checkpoint' = Suspended(s, ev)
    /\ UNCHANGED restoreTimers
    /\ UNCHANGED engine
    /\ UNCHANGED settingsVars
    /\ UNCHANGED swapVars
    /\ UNCHANGED serviceVars
    /\ UNCHANGED chat
    /\ UNCHANGED tokenStats
    /\ UNCHANGED roundModal

\* diversifyWorkers' onmessage: on complete or error the button is enabled again.
DiversifyOnMessage(s, ev) ==
    /\ s.kind = "diversify"
    /\ ev \in PipelineEvents(s)
    /\ HandlePipelineEvent(ev)
    /\ streams' = AfterMessage(s, ev.type, DiversifyClosesOn)
    /\ diversifyEnabled' = IF ev.type \in DiversifyClosesOn THEN TRUE ELSE diversifyEnabled
    /\ lastAlert' = "none"
    /\ UNCHANGED <<sessionId, sessionActive, currentMode, configWorkerCount,
                   workerCountInput, workers, requests, nextSid,
                   votePosts, finalizeOpened, finalContent>>
    /\ checkpoint' = Suspended(s, ev)
    /\ UNCHANGED restoreTimers
    /\ UNCHANGED engine
    /\ UNCHANGED settingsVars
    /\ UNCHANGED swapVars
    /\ UNCHANGED serviceVars
    /\ UNCHANGED chat
    /\ UNCHANGED tokenStats
    /\ UNCHANGED roundModal

\* onerror of runPipeline and continuePipeline: the connection was lost or the
\* server ended it; the stream is closed and the loss is logged.
PipelineOnError(s) ==
    /\ s.kind \in {"run", "continue"}
    /\ Len(logEntries) < MaxLog
    /\ streams' = Close(s)
    /\ logEntries' = AppendLog(logEntries, "system", "Pipeline connection lost", "error")
    /\ lastAlert' = "none"
    /\ UNCHANGED <<sessionId, sessionActive, currentMode, configWorkerCount,
                   workerCountInput, workers, currentView, candidates,
                   diversifyEnabled, modals, requests, nextSid, votePosts,
                   finalizeOpened, finalContent>>
    /\ UNCHANGED persistVars
    /\ UNCHANGED engine
    /\ UNCHANGED settingsVars
    /\ UNCHANGED swapVars
    /\ UNCHANGED serviceVars
    /\ UNCHANGED votingState
    /\ UNCHANGED chat
    /\ UNCHANGED tokenStats
    /\ UNCHANGED roundModal
    /\ UNCHANGED activeView

\* onerror of diversifyWorkers.
DiversifyOnError(s) ==
    /\ s.kind = "diversify"
    /\ Len(logEntries) < MaxLog
    /\ streams' = Close(s)
    /\ logEntries' = AppendLog(logEntries, "system", "Diversify connection lost", "error")
    /\ diversifyEnabled' = TRUE
    /\ lastAlert' = "none"
    /\ UNCHANGED <<sessionId, sessionActive, currentMode, configWorkerCount,
                   workerCountInput, workers, currentView, candidates,
                   modals, requests, nextSid, votePosts,
                   finalizeOpened, finalContent>>
    /\ UNCHANGED persistVars
    /\ UNCHANGED engine
    /\ UNCHANGED settingsVars
    /\ UNCHANGED swapVars
    /\ UNCHANGED serviceVars
    /\ UNCHANGED votingState
    /\ UNCHANGED chat
    /\ UNCHANGED tokenStats
    /\ UNCHANGED roundModal
    /\ UNCHANGED activeView

\* diversifyWorkers: the click on #btn-diversify.
DiversifyWorkers ==
    /\ diversifyEnabled
    /\ IF sessionId = NoSession
       THEN /\ lastAlert' = "No active session"
            /\ UNCHANGED <<logEntries, diversifyEnabled, streams>>
       ELSE /\ CanOpen
            /\ Len(logEntries) < MaxLog
            /\ logEntries' = AppendLog(logEntries, "system", "Triggering diversify action", "info")
            /\ diversifyEnabled' = FALSE
            /\ streams' = Open(Stream("diversify", sessionId))
            /\ lastAlert' = "none"
    /\ UNCHANGED <<sessionId, sessionActive, currentMode, configWorkerCount,
                   workerCountInput, workers, currentView, candidates,
                   modals, requests, nextSid, votePosts, finalizeOpened, finalContent>>
    /\ UNCHANGED persistVars
    /\ UNCHANGED engine
    /\ UNCHANGED settingsVars
    /\ UNCHANGED swapVars
    /\ UNCHANGED serviceVars
    /\ UNCHANGED votingState
    /\ UNCHANGED chat
    /\ UNCHANGED tokenStats
    /\ UNCHANGED roundModal
    /\ UNCHANGED activeView

\* ------------------------------------------------------ feedback checkpoints
FeedbackKinds == {"round", "collab", "argument"}

\* The log line written before continuePipeline (skip = false).
ContinueText(kind) ==
    IF kind = "round" THEN "Continuing..."
    ELSE IF kind = "collab" THEN "Collaboration round feedback submitted"
    ELSE "Continuing argumentation..."

\* submitRoundFeedback, submitCollabFeedback, submitArgumentFeedback up to the
\* feedback POST, called by the continue button (skip = false, no per-worker
\* feedback typed).  Only submitCollabFeedback hides its modal before the POST.
SubmitFeedback(kind) ==
    /\ kind \in modals
    /\ CanIssue
    /\ requests' = Issue(Request(kind, sessionId, "-"))
    /\ modals' = IF kind = "collab" THEN modals \ {kind} ELSE modals
    /\ lastAlert' = "none"
    /\ UNCHANGED <<sessionId, sessionActive, currentMode, configWorkerCount,
                   workerCountInput, workers, currentView, candidates,
                   diversifyEnabled, logEntries, streams, nextSid, votePosts,
                   finalizeOpened, finalContent>>
    /\ UNCHANGED persistVars
    /\ UNCHANGED engine
    /\ UNCHANGED settingsVars
    /\ UNCHANGED swapVars
    /\ UNCHANGED serviceVars
    /\ UNCHANGED votingState
    /\ UNCHANGED chat
    /\ UNCHANGED tokenStats
    /\ UNCHANGED roundModal
    /\ UNCHANGED activeView

\* A request for a null session id cannot succeed.
MayAnswer(r, ok) == ok => r.sid # NoSession

\* The server accepts feedback for a session suspended at the checkpoint the
\* feedback is for.
MayResume(r, ok) ==
    /\ MayAnswer(r, ok)
    /\ ok => r.sid \in SessionIds /\ checkpoint[r.sid].kind = r.op

\* A client that goes on to continuePipeline whatever the POST returned.
FeedbackAssumed(ok) == TRUE

\* The try block of the submit functions goes past `await api.post` only
\* when the POST succeeded.
FeedbackPosted(ok) == ok

\* After the feedback POST: the modal is hidden, the continuation is logged and
\* continuePipeline opens a continue stream on state.sessionId; a failure is
\* alerted (and logged, except by submitCollabFeedback).
SubmitFeedbackResponse(r, ok) ==
    /\ r \in BagToSet(requests)
    /\ r.op \in FeedbackKinds
    /\ MayResume(r, ok)
    /\ requests' = Answer(r)
    /\ IF FeedbackPosted(ok)
       THEN /\ CanOpen
            /\ Len(logEntries) < MaxLog
            /\ modals' = modals \ {r.op}
            /\ logEntries' = AppendLog(logEntries, "system", ContinueText(r.op), "info")
            /\ streams' = Open(Stream("continue", sessionId))
            /\ lastAlert' = "none"
       ELSE /\ r.op # "collab" => Len(logEntries) < MaxLog
            /\ logEntries' = IF r.op = "collab" THEN logEntries
                             ELSE AppendLog(logEntries, "system", "Error", "error")
            /\ lastAlert' = "Failed to submit feedback"
            /\ UNCHANGED <<modals, streams>>
    /\ UNCHANGED <<sessionId, sessionActive, currentMode, configWorkerCount,
                   workerCountInput, workers, currentView, candidates,
                   diversifyEnabled, nextSid, votePosts, finalizeOpened, finalContent>>
    /\ checkpoint' = IF ok THEN Resumed(r.sid) ELSE checkpoint
    /\ UNCHANGED <<stored, restoreTimers>>
    /\ UNCHANGED engine
    /\ UNCHANGED settingsVars
    /\ UNCHANGED swapVars
    /\ UNCHANGED serviceVars
    /\ UNCHANGED votingState
    /\ UNCHANGED chat
    /\ UNCHANGED tokenStats
    /\ UNCHANGED roundModal
    /\ UNCHANGED activeView

\* ------------------------------------------------------- voting and finalize
Count(f, sid) == IF sid \in SessionIds THEN f[sid] ELSE 0
Counted(f, sid) == IF sid \in SessionIds THEN [f EXCEPT ![sid] = @ + 1] ELSE f

\* Whether submitVotes goes on to the vote POST.
HasCandidates(c) == c > 0

\* submitVotes up to POST /session/{id}/vote: with no candidates it alerts and
\* returns.  The submit button is in the voting view.
SubmitVotes ==
    /\ currentView = "voting"
    /\ IF HasCandidates(candidates)
       THEN /\ CanIssue
            /\ Count(votePosts, sessionId) < MaxVotes
            /\ requests' = Issue(Request("vote", sessionId, "-"))
            /\ votePosts' = Counted(votePosts, sessionId)
            /\ lastAlert' = "none"
       ELSE /\ lastAlert' = "No candidates available to vote on"
            /\ UNCHANGED <<requests, votePosts>>
    /\ UNCHANGED <<sessionId, sessionActive, currentMode, configWorkerCount,
                   workerCountInput, workers, currentView, candidates,
                   diversifyEnabled, modals, logEntries, streams, nextSid,
                   finalizeOpened, finalContent>>
    /\ UNCHANGED persistVars
    /\ UNCHANGED engine
    /\ UNCHANGED settingsVars
    /\ UNCHANGED swapVars
    /\ UNCHANGED serviceVars
    /\ UNCHANGED votingState
    /\ UNCHANGED chat
    /\ UNCHANGED tokenStats
    /\ UNCHANGED roundModal
    /\ UNCHANGED activeView

\* submitVotes after the vote POST: runFinalizeStream opens the finalize
\* stream on state.sessionId; a failed POST is alerted by the catch.
SubmitVotesResponse(r, ok) ==
    /\ r \in InFlight("vote")
    /\ MayAnswer(r, ok)
    /\ requests' = Answer(r)
    /\ IF ok
       THEN /\ CanOpen
            /\ streams' = Open(Stream("finalize", sessionId))
            /\ finalizeOpened' = Counted(finalizeOpened, sessionId)
            /\ lastAlert' = "none"
       ELSE /\ lastAlert' = "Failed to submit votes"
            /\ UNCHANGED <<streams, finalizeOpened>>
    /\ UNCHANGED <<sessionId, sessionActive, currentMode, configWorkerCount,
                   workerCountInput, workers, currentView, candidates,
                   diversifyEnabled, modals, logEntries, nextSid, votePosts,
                   finalContent>>
    /\ checkpoint' = IF ok THEN Resumed(r.sid) ELSE checkpoint
    /\ UNCHANGED <<stored, restoreTimers>>
    /\ UNCHANGED engine
    /\ UNCHANGED settingsVars
    /\ UNCHANGED swapVars
    /\ UNCHANGED serviceVars
    /\ UNCHANGED votingState
    /\ UNCHANGED chat
    /\ UNCHANGED tokenStats
    /\ UNCHANGED roundModal
    /\ UNCHANGED activeView

\* What the server may push next on a finalize stream; "unparsable" is data
\* on which JSON.parse throws.
FinalizeEvents(s) ==
    LET start == IF MayStartStage(s) THEN {"stage_start"} ELSE {}
    IN  IF s.sid = NoSession \/ s.last \in {"final_output", "error"} THEN {}
        ELSE IF s.last = "none" THEN start \cup {"error", "unparsable"}
        ELSE IF s.last = "stage_start" THEN {"stage_complete", "error", "unparsable"}
        ELSE start \cup {"final_output", "error", "unparsable"}

\* runFinalizeStream's onmessage: stage_start shows the progress in the final
\* view, stage_complete changes nothing shown, final_output is kept in finalOutput, error closes the stream and
\* rejects (submitVotes alerts), a parse error is only written to the console.
FinalizeOnMessage(s, type) ==
    /\ s.kind = "finalize"
    /\ type \in FinalizeEvents(s)
    /\ streams' = IF type = "error" THEN Close(s)
                  ELSE IF type = "unparsable" THEN streams
                  ELSE Close(s) (+) SetToBag({[s EXCEPT !.last = type,
                                                          !.out = (@ \/ type = "final_output")]})
    /\ finalContent' = IF type = "stage_start" THEN "progress" ELSE finalContent
    /\ currentView' = IF type = "stage_start" THEN "final" ELSE currentView
    /\ activeView' = IF type = "stage_start" THEN "final" ELSE activeView
    /\ lastAlert' = IF type = "error" THEN "Failed to submit votes" ELSE "none"
    /\ UNCHANGED <<sessionId, sessionActive, currentMode, configWorkerCount,
                   workerCountInput, workers, candidates, diversifyEnabled, modals,
                   logEntries, requests, nextSid, votePosts, finalizeOpened>>
    /\ stored' = IF type = "stage_start"
                 THEN SaveSessionState(sessionId, sessionActive, "final") ELSE stored
    /\ UNCHANGED <<checkpoint, restoreTimers>>
    /\ UNCHANGED engine
    /\ UNCHANGED settingsVars
    /\ UNCHANGED swapVars
    /\ UNCHANGED serviceVars
    /\ UNCHANGED votingState
    /\ UNCHANGED chat
    /\ UNCHANGED tokenStats
    /\ UNCHANGED roundModal

\* runFinalizeStream's onerror: with a final output it is shown; without one
\* submitFinalFeedback('') posts /final-feedback on state.sessionId.
FinalizeOnError(s) ==
    /\ s.kind = "finalize"
    /\ streams' = Close(s)
    /\ IF s.out
       THEN /\ finalContent' = "output"
            /\ currentView' = "final"
            /\ activeView' = "final"
            /\ UNCHANGED requests
       ELSE /\ CanIssue
            /\ requests' = Issue(Request("final-feedback", sessionId, "-"))
            /\ UNCHANGED <<finalContent, currentView, activeView>>
    /\ lastAlert' = "none"
    /\ UNCHANGED <<sessionId, sessionActive, currentMode, configWorkerCount,
                   workerCountInput, workers, candidates, diversifyEnabled, modals,
                   logEntries, nextSid, votePosts, finalizeOpened>>
    /\ stored' = IF s.out THEN SaveSessionState(sessionId, sessionActive, "final") ELSE stored
    /\ UNCHANGED <<checkpoint, restoreTimers>>
    /\ UNCHANGED engine
    /\ UNCHANGED settingsVars
    /\ UNCHANGED swapVars
    /\ UNCHANGED serviceVars
    /\ UNCHANGED votingState
    /\ UNCHANGED chat
    /\ UNCHANGED tokenStats
    /\ UNCHANGED roundModal

\* submitFinalFeedback after its POST: the result is shown; a failure is
\* caught and only written to the console, so the caller's promise resolves.
SubmitFinalFeedbackResponse(r, ok) ==
    /\ r \in InFlight("final-feedback")
    /\ MayAnswer(r, ok)
    /\ requests' = Answer(r)
    /\ finalContent' = IF ok THEN "output" ELSE finalContent
    /\ currentView' = IF ok THEN "final" ELSE currentView
    /\ activeView' = IF ok THEN "final" ELSE activeView
    /\ lastAlert' = "none"
    /\ UNCHANGED <<sessionId, sessionActive, currentMode, configWorkerCount,
                   workerCountInput, workers, candidates, diversifyEnabled, modals,
                   logEntries, streams, nextSid, votePosts, finalizeOpened>>
    /\ stored' = IF ok THEN SaveSessionState(sessionId, sessionActive, "final") ELSE stored
    /\ UNCHANGED <<checkpoint, restoreTimers>>
    /\ UNCHANGED engine
    /\ UNCHANGED settingsVars
    /\ UNCHANGED swapVars
    /\ UNCHANGED serviceVars
    /\ UNCHANGED votingState
    /\ UNCHANGED chat
    /\ UNCHANGED tokenStats
    /\ UNCHANGED roundModal

\* ------------------------------------------------------------- End Council
\* endCouncil (confirmed): #btn-end-council is shown while a session is
\* active, #btn-new-session is in the final view.  No stream is closed and no
\* modal is hidden.
EndCouncil ==
    /\ (sessionActive /\ sessionId # NoSession) \/ currentView = "final"
    /\ sessionId' = NoSession
    /\ sessionActive' = FALSE
    /\ workers' = InitializeWorkerCards(configWorkerCount, currentMode)
    /\ logEntries' = AppendLog(ClearLog(logEntries), "system", "Session ended by user", "info")
    /\ diversifyEnabled' = FALSE
    /\ currentView' = "session"
    /\ activeView' = "session"
    /\ lastAlert' = "none"
    /\ UNCHANGED <<currentMode, configWorkerCount, workerCountInput, candidates,
                   modals, streams, requests, nextSid, votePosts, finalizeOpened, finalContent>>
    /\ stored' = ClearSessionState
    /\ chat' = InitChatTimeline(chat)
    /\ UNCHANGED <<checkpoint, restoreTimers>>
    /\ UNCHANGED engine
    /\ UNCHANGED settingsVars
    /\ persona' = InitialPersonas(workers')
    /\ cardPersona' = InitialPersonas(workers')
    /\ UNCHANGED <<currentSwapWorker, serverPersona, auditSwaps>>
    /\ UNCHANGED serviceVars
    /\ UNCHANGED votingState
    /\ UNCHANGED tokenStats
    /\ UNCHANGED roundModal

\* ---------------------------------------------------------------- RAM mode
\* setMode up to POST /config/mode: refused with an alert while a session is active.
SetMode(mode) ==
    /\ IF sessionActive
       THEN /\ lastAlert' = "Cannot change mode while a council session is active"
            /\ UNCHANGED requests
       ELSE /\ CanIssue
            /\ requests' = Issue(Request("mode", NoSession, mode))
            /\ lastAlert' = "none"
    /\ UNCHANGED <<sessionId, sessionActive, currentMode, configWorkerCount,
                   workerCountInput, workers, currentView, candidates,
                   diversifyEnabled, modals, logEntries, streams, nextSid,
                   votePosts, finalizeOpened, finalContent>>
    /\ UNCHANGED persistVars
    /\ UNCHANGED engine
    /\ UNCHANGED settingsVars
    /\ UNCHANGED swapVars
    /\ UNCHANGED serviceVars
    /\ UNCHANGED votingState
    /\ UNCHANGED chat
    /\ UNCHANGED tokenStats
    /\ UNCHANGED roundModal
    /\ UNCHANGED activeView

\* setMode after the POST: the mode and the configuration are replaced by the
\* server's answer and the worker cards are rebuilt; a failure is only
\* written to the console.
SetModeResponse(r, ok) ==
    /\ r \in InFlight("mode")
    /\ requests' = Answer(r)
    /\ IF ok
       THEN /\ currentMode' = r.arg
            /\ configWorkerCount' = ModeWorkerCount(r.arg)
            /\ workers' = InitializeWorkerCards(ModeWorkerCount(r.arg), r.arg)
       ELSE UNCHANGED <<currentMode, configWorkerCount, workers>>
    /\ lastAlert' = "none"
    /\ UNCHANGED <<sessionId, sessionActive, workerCountInput, currentView,
                   candidates, diversifyEnabled, modals, logEntries, streams,
                   nextSid, votePosts, finalizeOpened, finalContent>>
    /\ UNCHANGED persistVars
    /\ UNCHANGED engine
    /\ UNCHANGED settingsVars
    /\ persona' = IF ok THEN InitialPersonas(workers') ELSE persona
    /\ cardPersona' = IF ok THEN InitialPersonas(workers') ELSE cardPersona
    /\ UNCHANGED <<currentSwapWorker, serverPersona, auditSwaps>>
    /\ UNCHANGED serviceVars
    /\ UNCHANGED votingState
    /\ UNCHANGED chat
    /\ UNCHANGED tokenStats
    /\ UNCHANGED roundModal
    /\ UNCHANGED activeView

\* ------------------------------------------------------------ worker count
\* updateWorkerCount stores the count in the configuration and rebuilds the cards.
UpdateWorkerCount(count) ==
    /\ configWorkerCount' = count
    /\ workers' = InitializeWorkerCards(count, currentMode)
    /\ persona' = InitialPersonas(workers')
    /\ cardPersona' = InitialPersonas(workers')

\* The change handler of #setting-worker-count: the typed count is clamped to
\* 2..max for the mode.
WorkerCountChange(count) ==
    LET clamped == Min(Max(count, 2), MaxWorkers(currentMode))
    IN  /\ workerCountInput' = clamped
        /\ UpdateWorkerCount(clamped)
        /\ lastAlert' = "none"
        /\ UNCHANGED <<sessionId, sessionActive, currentMode, currentView,
                       candidates, diversifyEnabled, modals, logEntries, streams,
                       requests, nextSid, votePosts, finalizeOpened,
                       finalContent>>
        /\ UNCHANGED persistVars
        /\ UNCHANGED engine
        /\ UNCHANGED settingsVars
        /\ UNCHANGED <<currentSwapWorker, serverPersona, auditSwaps>>
        /\ UNCHANGED serviceVars
        /\ UNCHANGED votingState
        /\ UNCHANGED chat
        /\ UNCHANGED tokenStats
        /\ UNCHANGED roundModal
        /\ UNCHANGED activeView

\* The click handler of #btn-add-worker.
AddWorker ==
    /\ IF workerCountInput < MaxWorkers(currentMode)
       THEN /\ workerCountInput' = workerCountInput + 1
            /\ UpdateWorkerCount(workerCountInput + 1)
            /\ lastAlert' = "none"
       ELSE /\ lastAlert' = "Maximum workers allowed"
            /\ UNCHANGED <<workerCountInput, configWorkerCount, workers, persona,
                           cardPersona>>
    /\ UNCHANGED <<sessionId, sessionActive, currentMode, currentView,
                   candidates, diversifyEnabled, modals, logEntries, streams,
                   requests, nextSid, votePosts, finalizeOpened, finalContent>>
    /\ UNCHANGED persistVars
    /\ UNCHANGED engine
    /\ UNCHANGED settingsVars
    /\ UNCHANGED <<currentSwapWorker, serverPersona, auditSwaps>>
    /\ UNCHANGED serviceVars
    /\ UNCHANGED votingState
    /\ UNCHANGED chat
    /\ UNCHANGED tokenStats
    /\ UNCHANGED roundModal
    /\ UNCHANGED activeView

\* ------------------------------------------------------------ round settings
\* The values typed into a round input: below the range, what an empty input
\* parses to, above the range.
TypedRounds == {0 - 1, 0, 6}

\* The change handler of #setting-refinement-rounds and
\* #setting-argument-rounds: updatePipelineSettings reads every input.
RoundsChange(which, v) ==
    /\ which \in {"refinement", "argument"}
    /\ roundInputs' = [roundInputs EXCEPT ![which] = v]
    /\ pipelineSettings' = UpdatePipelineSettings(workerCountInput, roundInputs')
    /\ lastAlert' = "none"
    /\ UNCHANGED <<sessionId, sessionActive, currentMode, configWorkerCount,
                   workerCountInput, workers, currentView, candidates,
                   diversifyEnabled, modals, logEntries, streams, requests, nextSid,
                   votePosts, finalizeOpened, finalContent, sessionConfig>>
    /\ UNCHANGED persistVars
    /\ UNCHANGED engine
    /\ UNCHANGED swapVars
    /\ UNCHANGED serviceVars
    /\ UNCHANGED votingState
    /\ UNCHANGED chat
    /\ UNCHANGED tokenStats
    /\ UNCHANGED roundModal
    /\ UNCHANGED activeView

\* ------------------------------------------------------------- persona swap
\* The swap entries a session's log can hold.
MaxSwaps == 2

\* openSwapModal: the swap button of a worker card.
OpenSwapModal(w) ==
    /\ currentSwapWorker = 0
    /\ w \in DOMAIN workers
    /\ currentSwapWorker' = w
    /\ lastAlert' = "none"
    /\ UNCHANGED <<persona, cardPersona, serverPersona, auditSwaps>>
    /\ UNCHANGED <<clientState, requests, streams, logEntries>>
    /\ UNCHANGED <<persistVars, engine, settingsVars>>
    /\ UNCHANGED serviceVars
    /\ UNCHANGED votingState
    /\ UNCHANGED chat
    /\ UNCHANGED tokenStats
    /\ UNCHANGED roundModal
    /\ UNCHANGED activeView

\* closeSwapModal: the cancel button of the swap modal.
CloseSwapModal ==
    /\ currentSwapWorker # 0
    /\ currentSwapWorker' = 0
    /\ lastAlert' = "none"
    /\ UNCHANGED <<persona, cardPersona, serverPersona, auditSwaps>>
    /\ UNCHANGED <<clientState, requests, streams, logEntries>>
    /\ UNCHANGED <<persistVars, engine, settingsVars>>
    /\ UNCHANGED serviceVars
    /\ UNCHANGED votingState
    /\ UNCHANGED chat
    /\ UNCHANGED tokenStats
    /\ UNCHANGED roundModal
    /\ UNCHANGED activeView

\* A swap that binds every slot to the new persona.
RebindAll(bindings, slot, p) == [i \in DOMAIN bindings |-> p]

\* `state.workers[workerIndex].persona = persona`: slot `slot` is bound to p.
Rebind(bindings, slot, p) == [bindings EXCEPT ![slot] = p]

\* confirmSwap up to its POST /session/{id}/swap-persona, with persona p
\* selected: without a session the slot is rebound locally (when the slot
\* still exists) and the modal is closed.
ConfirmSwap(p) ==
    /\ currentSwapWorker # 0
    /\ IF sessionId = NoSession
       THEN /\ persona' = IF currentSwapWorker \in DOMAIN workers
                          THEN Rebind(persona, currentSwapWorker, p) ELSE persona
            /\ cardPersona' = IF currentSwapWorker \in DOMAIN workers
                              THEN Rebind(cardPersona, currentSwapWorker, p)
                              ELSE cardPersona
            /\ currentSwapWorker' = 0
            /\ UNCHANGED requests
       ELSE /\ CanIssue
            /\ requests' = Issue([Request("swap", sessionId, "-")
                                     EXCEPT !.slot = currentSwapWorker, !.persona = p])
            /\ UNCHANGED <<currentSwapWorker, persona, cardPersona>>
    /\ lastAlert' = "none"
    /\ UNCHANGED <<serverPersona, auditSwaps>>
    /\ UNCHANGED <<clientState, streams, logEntries>>
    /\ UNCHANGED <<persistVars, engine, settingsVars>>
    /\ UNCHANGED serviceVars
    /\ UNCHANGED votingState
    /\ UNCHANGED chat
    /\ UNCHANGED tokenStats
    /\ UNCHANGED roundModal
    /\ UNCHANGED activeView

\* A server that logs nothing for a swap.
SwapUnlogged(ok) == 0

\* swap(slot_id, new_persona_id, mode) appends one LogEntry; a rejected swap
\* appends none.
SwapLogged(ok) == IF ok THEN 1 ELSE 0

\* A swap is legal for a slot of an existing session.
MaySwap(r, ok) ==
    /\ MayAnswer(r, ok)
    /\ ok => /\ r.sid \in 1..nextSid
             /\ r.slot \in DOMAIN serverPersona[r.sid]
             /\ auditSwaps[r.sid] < MaxSwaps

\* confirmSwap after the POST: the worker card of currentSwapWorker shows the
\* new persona and the modal is closed; a failed POST, or a card that cannot
\* be found, is alerted.
ConfirmSwapResponse(r, ok) ==
    /\ r \in InFlight("swap")
    /\ MaySwap(r, ok)
    /\ requests' = Answer(r)
    /\ serverPersona' = IF ok THEN [serverPersona EXCEPT ![r.sid] = Rebind(@, r.slot, r.persona)]
                        ELSE serverPersona
    /\ auditSwaps' = IF r.sid \in SessionIds
                     THEN [auditSwaps EXCEPT ![r.sid] = @ + SwapLogged(ok)]
                     ELSE auditSwaps
    /\ IF ok /\ currentSwapWorker \in DOMAIN cardPersona
       THEN /\ cardPersona' = Rebind(cardPersona, currentSwapWorker, r.persona)
            /\ currentSwapWorker' = 0
            /\ lastAlert' = "none"
       ELSE /\ lastAlert' = "Failed to swap persona"
            /\ UNCHANGED <<cardPersona, currentSwapWorker>>
    /\ UNCHANGED persona
    /\ UNCHANGED <<clientState, streams, logEntries>>
    /\ UNCHANGED <<persistVars, engine, settingsVars>>
    /\ UNCHANGED serviceVars
    /\ UNCHANGED votingState
    /\ UNCHANGED chat
    /\ UNCHANGED tokenStats
    /\ UNCHANGED roundModal
    /\ UNCHANGED activeView

\* ------------------------------------------------------------ clear the log
\* The click handler of #btn-clear-log.
ClearLogClick ==
    /\ logEntries' = ClearLog(logEntries)
    /\ lastAlert' = "none"
    /\ UNCHANGED <<sessionId, sessionActive, currentMode, configWorkerCount,
                   workerCountInput, workers, currentView, candidates,
                   diversifyEnabled, modals, streams, requests, nextSid,
                   votePosts, finalizeOpened, finalContent>>
    /\ UNCHANGED persistVars
    /\ UNCHANGED engine
    /\ UNCHANGED settingsVars
    /\ UNCHANGED swapVars
    /\ UNCHANGED serviceVars
    /\ UNCHANGED votingState
    /\ UNCHANGED chat
    /\ UNCHANGED tokenStats
    /\ UNCHANGED roundModal
    /\ UNCHANGED activeView

\* ------------------------------------------------------------- Stage Engine
\* The engine e moved to a stage and round.
EngineAt(stage, round, halted, e) ==
    [e EXCEPT !.stage = stage, !.round = round, !.halted = halted,
              !.calls = << >>, !.inflight = {}]

\* An engine that does not wait for a worker to return.
Overlapping(e) == TRUE

\* One inference resource: no invocation while another is in flight.
SingleFlight(e) == e.inflight = {}

\* A stage that executes workers ends when every slot has been invoked and
\* has returned.
WorkersDone(e) ==
    e.stage \in WorkerStages => Len(e.calls) = e.k /\ e.inflight = {}

\* The round limit of a round stage.
RoundLimit(e) ==
    IF e.stage = "worker_refinement" THEN e.R
    ELSE IF e.stage = "collaboration_round" THEN e.C
    ELSE e.A

\* The top-level stage after a round stage.
AfterRounds(stage) ==
    IF stage = "worker_refinement" THEN "compatibility_check"
    ELSE IF stage = "collaboration_round" THEN "candidate_synthesis"
    ELSE "ai_voting"

\* An engine that runs one round more than configured.
OneRoundMore(round, limit) == round <= limit

\* Whether another round of the stage follows round `round`.
MoreRounds(round, limit) == round < limit

\* An engine that collaborates only on full compatibility.
OnlyCompatible(level) == level = "compatible"

\* The branch rule at the compatibility check.
EntersCollaboration(level) == level \in {"compatible", "partially_compatible"}

\* displayCompatibilityResults announces collaboration for these levels and
\* "proceeding directly to voting" for any other.
AnnouncesCollaboration(level) ==
    level = "compatible" \/ level = "partially_compatible"

\* start(session_config): the engine begins with the drafts.
EngineStart(r, c, a, k) ==
    /\ engine.stage = "idle"
    /\ engine' = [EngineAt("worker_drafts", 0, FALSE, engine)
                     EXCEPT !.R = r, !.C = c, !.A = a, !.k = k]

\* The next slot in slot-id order is invoked (worker_start).
EngineInvoke ==
    /\ ~engine.halted
    /\ engine.stage \in WorkerStages
    /\ Len(engine.calls) < engine.k
    /\ SingleFlight(engine)
    /\ engine' = [engine EXCEPT !.calls = Append(@, Len(@) + 1),
                                !.inflight = @ \cup {Len(engine.calls) + 1}]

\* The invocation of a slot returns (worker_complete).
EngineReturn(slot) ==
    /\ slot \in engine.inflight
    /\ engine' = [engine EXCEPT !.inflight = @ \ {slot}]

\* The current stage runs to its end: a round stage halts at its checkpoint,
\* the compatibility check classifies and branches, ai_voting halts for the
\* user's vote, any other stage is followed by the next one.
EngineRound ==
    /\ ~engine.halted
    /\ engine.stage \in RoundStages
    /\ WorkersDone(engine)
    /\ engine' = [engine EXCEPT !.halted = TRUE,
                                !.checkpoints[engine.stage] = @ + 1]

EngineClassify(level) ==
    /\ ~engine.halted
    /\ engine.stage = "compatibility_check"
    /\ engine' = [EngineAt(IF EntersCollaboration(level) THEN "collaboration_round"
                           ELSE "candidate_synthesis",
                           IF EntersCollaboration(level) THEN 1 ELSE 0, FALSE, engine)
                     EXCEPT !.compatibility = level]

EngineStage ==
    /\ ~engine.halted
    /\ engine.stage \in {"worker_drafts", "synth_questions", "candidate_synthesis",
                         "ai_voting", "axiom_analysis", "final_output"}
    /\ WorkersDone(engine)
    /\ engine' =
         IF engine.stage = "worker_drafts" THEN EngineAt("synth_questions", 0, FALSE, engine)
         ELSE IF engine.stage = "synth_questions" THEN EngineAt("worker_refinement", 1, FALSE, engine)
         ELSE IF engine.stage = "candidate_synthesis" THEN EngineAt("argumentation_round", 1, FALSE, engine)
         ELSE IF engine.stage = "ai_voting" THEN EngineAt("user_voting", 0, TRUE, engine)
         ELSE IF engine.stage = "axiom_analysis" THEN EngineAt("final_output", 0, FALSE, engine)
         ELSE EngineAt("complete", 0, FALSE, engine)

\* resume(session_id, external_input): after a round the next round follows
\* unless the rounds are used up or skip is set; after the user's vote the
\* axiom analysis follows.
EngineResume(skip) ==
    /\ engine.halted
    /\ engine' =
         IF engine.stage = "user_voting" THEN EngineAt("axiom_analysis", 0, FALSE, engine)
         ELSE IF ~skip /\ MoreRounds(engine.round, RoundLimit(engine))
              THEN EngineAt(engine.stage, engine.round + 1, FALSE, engine)
         ELSE EngineAt(AfterRounds(engine.stage),
                       IF AfterRounds(engine.stage) \in RoundStages THEN 1 ELSE 0,
                       FALSE, engine)

\* Everything of the page and of the server's bookkeeping for it.
clientVars ==
    <<sessionId, sessionActive, currentMode, configWorkerCount, workerCountInput,
      workers, currentView, candidates, diversifyEnabled, modals, logEntries,
      streams, requests, nextSid, votePosts, finalizeOpened, lastAlert,
      finalContent, stored, checkpoint, restoreTimers, roundInputs,
      pipelineSettings, sessionConfig, currentSwapWorker, persona, cardPersona,
      serverPersona, auditSwaps, ballot, outcome, publisher, votingState, chat,
      tokenStats, roundModal, activeView>>

\* A step of the Stage Engine.
EngineStep ==
    /\ \/ \E r \in RefinementRounds, c \in CollaborationRounds, a \in ArgumentRounds,
               k \in WorkerCounts :
            EngineStart(r, c, a, k)
       \/ EngineInvoke
       \/ \E slot \in engine.inflight : EngineReturn(slot)
       \/ EngineRound
       \/ \E level \in CompatibilityLevels : EngineClassify(level)
       \/ EngineStage
       \/ \E skip \in BOOLEAN : EngineResume(skip)
    /\ UNCHANGED clientVars

\* ---------------------------------------------------------- Vote Aggregator
\* Scores are kept exact: a human score h is held as 60 * h, a machine score
\* m as 60 * m, a combined score c as 600 * c.

\* The human score of a rank among n ranks, times 60: ranks are spaced
\* linearly over 0-10 (of 3: 1st 10, 2nd 6.67, 3rd 3.33), skip gives 0.
HumanScore(rank, n) ==
    IF rank = 0 \/ rank > n THEN 0 ELSE (600 * (n - rank + 1)) \div n

\* The machine score given in tenths, times 60.
MachineScore(tenths) == 6 * tenths

\* An aggregator with the two weights exchanged.
WeightsExchanged(machine, human) == 6 * machine + 4 * human

\* Combined score = machine x 0.4 + human x 0.6, times 600.
Combined(machine, human) == 4 * machine + 6 * human

\* The skip or unranked votes a candidate has got.
SkipVotes(rank) == IF rank = 0 THEN 1 ELSE 0

\* An aggregator that ranks the candidate with more skip votes first.
MoreSkipsFirst(res, a, b) ==
    \/ res.combined[a] > res.combined[b]
    \/ /\ res.combined[a] = res.combined[b]
       /\ \/ res.skips[a] > res.skips[b]
          \/ res.skips[a] = res.skips[b] /\ a < b

\* Whether candidate a is ranked before candidate b: the higher combined
\* score, then the fewer skip votes, then the earlier id.
Before(res, a, b) ==
    \/ res.combined[a] > res.combined[b]
    \/ /\ res.combined[a] = res.combined[b]
       /\ \/ res.skips[a] < res.skips[b]
          \/ res.skips[a] = res.skips[b] /\ a < b

\* The candidate ranked first among 1..n, found by one pass in id order that
\* keeps the best candidate so far.
RECURSIVE Best(_, _)
Best(res, n) ==
    IF n = 1 THEN 1
    ELSE LET best == Best(res, n - 1)
         IN  IF Before(res, n, best) THEN n ELSE best

\* The aggregation of a ballot.
Aggregate(b) ==
    LET res == [combined |-> [c \in 1..b.n |->
                                 Combined(MachineScore(b.machine[c]),
                                          HumanScore(b.rank[c], b.n))],
                skips |-> [c \in 1..b.n |-> SkipVotes(b.rank[c])],
                winner |-> 0]
    IN  [res EXCEPT !.winner = Best(res, b.n)]

\* The machine scores and the human's ranks of a session arrive (votes are
\* collected once per session).
CollectVotes(n, machine, rank) ==
    /\ ballot = NoBallot
    /\ ballot' = [n |-> n, machine |-> machine, rank |-> rank]
    /\ outcome' = NoOutcome

\* The aggregator runs on the votes collected.
AggregateVotes ==
    /\ ballot.n > 0
    /\ outcome = NoOutcome
    /\ outcome' = Aggregate(ballot)
    /\ UNCHANGED ballot

\* Everything but the Vote Aggregator, the Event Publisher, the voting
\* state, the chat timeline and the token statistics.
exceptTokens ==
    <<sessionId, sessionActive, currentMode, configWorkerCount, workerCountInput,
      workers, currentView, candidates, diversifyEnabled, modals, logEntries,
      streams, requests, nextSid, votePosts, finalizeOpened, lastAlert,
      finalContent, stored, checkpoint, restoreTimers, roundInputs,
      pipelineSettings, sessionConfig, currentSwapWorker, persona, cardPersona,
      serverPersona, auditSwaps, engine, activeView>>

\* The same with the token statistics and the round-feedback modal.
exceptServices == <<exceptTokens, tokenStats, roundModal>>

\* A step of the Vote Aggregator.
AggregatorStep ==
    /\ \/ \E n \in 2..3 : \E machine \in [1..n -> MachineScores], rank \in [1..n -> Ranks] :
            CollectVotes(n, machine, rank)
       \/ AggregateVotes
    /\ UNCHANGED <<exceptServices, publisher, votingState, chat>>

\* ------------------------------------------------------------ worker events
\* A setWorkerLoading that leaves the active marks in place.
StillActive(active) == active

\* setWorkerLoading removes the active mark from every roster member.
Deactivated(active) == {}

\* The payloads of a worker_complete event; "none" is an event that carries
\* none of them.
Payloads == {"draft", "refinement", "argument", "diversified", "collaboration", "none"}

\* The log stage of the entry written for a payload.
PayloadStage(payload) ==
    IF payload = "diversified" THEN "refinement" ELSE payload

\* handlePipelineEvent, case worker_start: the roster member of the worker
\* is the only one marked active, a loading message is added to the chat and
\* recorded in pendingMessages, the start is logged.
WorkerStart(w) ==
    /\ w \in 1..Len(workers)
    /\ chat.made < MaxMessages
    /\ Len(logEntries) < MaxLog
    /\ chat' = [active |-> Deactivated(chat.active) \cup {w},
                pending |-> [chat.pending EXCEPT ![w] = chat.made + 1],
                messages |-> chat.messages
                    \cup {[id |-> chat.made + 1, worker |-> w, loading |-> TRUE]},
                made |-> chat.made + 1]
    /\ logEntries' = AppendLog(logEntries, "draft", "Started working", "info")
    /\ UNCHANGED <<sessionId, sessionActive, currentMode, configWorkerCount,
                   workerCountInput, workers, currentView, candidates,
                   diversifyEnabled, modals, streams, requests, nextSid,
                   votePosts, finalizeOpened, lastAlert, finalContent>>
    /\ UNCHANGED <<persistVars, engine, settingsVars, swapVars, serviceVars, votingState>>
    /\ UNCHANGED tokenStats
    /\ UNCHANGED roundModal
    /\ UNCHANGED activeView

\* handlePipelineEvent, case worker_complete: no roster member is marked
\* active; with a payload the worker's pending message gets the content and
\* leaves pendingMessages (a new message is added when none is pending) and
\* the output is logged; without a payload nothing else happens.
WorkerComplete(w, payload) ==
    /\ w \in 1..Len(workers)
    /\ IF payload = "none"
       THEN /\ chat' = [chat EXCEPT !.active = Deactivated(@)]
            /\ UNCHANGED logEntries
       ELSE /\ Len(logEntries) < MaxLog
            /\ logEntries' = AppendLog(logEntries, PayloadStage(payload), "Output", "info")
            /\ IF chat.pending[w] # 0
               THEN chat' = [chat EXCEPT
                        !.active = Deactivated(@),
                        !.pending[w] = 0,
                        !.messages = {IF m.id = chat.pending[w]
                                      THEN [m EXCEPT !.loading = FALSE] ELSE m : m \in @}]
               ELSE /\ chat.made < MaxMessages
                    /\ chat' = [chat EXCEPT
                        !.active = Deactivated(@),
                        !.messages = @ \cup {[id |-> chat.made + 1, worker |-> w,
                                              loading |-> FALSE]},
                        !.made = @ + 1]
    /\ UNCHANGED <<sessionId, sessionActive, currentMode, configWorkerCount,
                   workerCountInput, workers, currentView, candidates,
                   diversifyEnabled, modals, streams, requests, nextSid,
                   votePosts, finalizeOpened, lastAlert, finalContent>>
    /\ UNCHANGED <<persistVars, engine, settingsVars, swapVars, serviceVars, votingState>>
    /\ UNCHANGED tokenStats
    /\ UNCHANGED roundModal
    /\ UNCHANGED activeView

\* ------------------------------------------------------------------ setVote
\* A setVote that leaves the other candidates' votes alone.
NeverCleared(rank, r) == r

\* The vote r of another candidate after setVote(_, rank): a rank above 0
\* is taken away from the candidate that held it.
Cleared(rank, r) == IF rank > 0 /\ r = rank THEN 0 ELSE r

\* A click on a vote button (1st, 2nd, 3rd, Skip) of candidate c's card.
SetVote(c, rank) ==
    /\ c \in 1..votingState.cards
    /\ votingState' =
         UpdateSubmitButton(
             [votingState EXCEPT !.votes =
                 [x \in DOMAIN @ \cup {c} |->
                     IF x = c THEN rank ELSE Cleared(rank, @[x])]],
             candidates)
    /\ UNCHANGED <<exceptServices, serviceVars, chat>>

\* A click on a prompt rating button (0 is Skip).
SetPromptRating(rating) ==
    /\ votingState' = [votingState EXCEPT !.promptRating = rating]
    /\ UNCHANGED <<exceptServices, serviceVars, chat>>

\* Input in the overall feedback textarea.
TypeFeedback(text) ==
    /\ votingState' = [votingState EXCEPT !.overallFeedback = text]
    /\ UNCHANGED <<exceptServices, serviceVars, chat>>

\* transitionToVoting after state.candidates was set to n candidates: the
\* voting view is built and shown.
TransitionToVoting(n) ==
    /\ candidates' = n
    /\ votingState' = BuildVotingUI(n)
    /\ currentView' = "voting"
    /\ activeView' = "voting"
    /\ stored' = SaveSessionState(sessionId, sessionActive, "voting")
    /\ UNCHANGED <<sessionId, sessionActive, currentMode, configWorkerCount,
                   workerCountInput, workers, diversifyEnabled, modals, logEntries,
                   streams, requests, nextSid, votePosts, finalizeOpened,
                   lastAlert, finalContent, checkpoint, restoreTimers>>
    /\ UNCHANGED <<engine, settingsVars, swapVars, serviceVars, chat, tokenStats,
                   roundModal>>

\* ---------------------------------------------------------- Event Publisher
\* A publisher that sends a stage's events from the start on every connection.
FromStageStart(p) == 0

\* A consumer that connects again resumes after the last acknowledged event.
ResumeFrom(p) == p.acked

\* The engine publishes the next event of the session.
Publish ==
    /\ publisher.published < MaxEvents
    /\ publisher' = [publisher EXCEPT !.published = @ + 1]

\* The page opens a stream of the session (new EventSource).
Connect ==
    /\ ~publisher.open
    /\ publisher' = [publisher EXCEPT !.open = TRUE,
                                      !.sent = ResumeFrom(publisher),
                                      !.resumedAt = publisher.acked]

\* The publisher sends the next event on the open stream.
Send ==
    /\ publisher.open
    /\ publisher.sent < publisher.published
    /\ publisher' = [publisher EXCEPT !.sent = @ + 1,
                                      !.wire = Append(@, publisher.sent + 1)]

\* onmessage: the page handles the event it receives; its number is the
\* last event id of the stream.
Receive ==
    /\ publisher.open
    /\ publisher.wire # << >>
    /\ publisher' = [publisher EXCEPT !.wire = Tail(@),
                                      !.acked = Head(publisher.wire),
                                      !.handled = Append(@, Head(publisher.wire))]

\* onerror: the connection is lost with whatever was on its way, and the
\* page closes the stream.
Disconnect ==
    /\ publisher.open
    /\ publisher' = [publisher EXCEPT !.open = FALSE, !.wire = << >>]

\* A step of the Event Publisher and the stream.
PublisherStep ==
    /\ Publish \/ Connect \/ Send \/ Receive \/ Disconnect
    /\ UNCHANGED <<exceptServices, ballot, outcome, votingState, chat>>

\* ---------------------------------------------------------------- page load
\* The log entries the server returns in full-state: what it logged of the
\* pipeline and one entry per persona swap.
ServerLog(sid) ==
    <<LogEntry("system", "Session log kept by the server", "info")>>
        \o [i \in 1..auditSwaps[sid] |-> LogEntry("system", "Persona swapped", "info")]

\* populateLogFromEntries replaces logEntries by the given entries.
PopulateLogFromEntries(entries) == entries

\* loadSessionState: whether sessionStorage holds an active session.
HasStoredSession == stored.sid # NoSession /\ stored.active

\* The page is reloaded: every stream is closed with the old page and no
\* answer to its requests is handled; the DOMContentLoaded handler loads the
\* configuration and the personas, rebuilds the worker cards and, when
\* loadSessionState finds an active session, asks the server for its status.
Reload ==
    /\ streams' = EmptyBag
    /\ restoreTimers' = << >>
    /\ logEntries' = << >>
    /\ modals' = {}
    /\ candidates' = Undefined
    /\ votingState' = NoVotes
    /\ chat' = NoChat
    /\ tokenStats' = NoTokenStats
    /\ roundModal' = NoRoundModal
    /\ activeView' = DefaultView
    /\ diversifyEnabled' = FALSE
    /\ finalContent' = "empty"
    /\ lastAlert' = "none"
    /\ configWorkerCount' = ModeWorkerCount(currentMode)
    /\ workerCountInput' = ModeWorkerCount(currentMode)
    /\ workers' = InitializeWorkerCards(ModeWorkerCount(currentMode), currentMode)
    /\ IF HasStoredSession
       THEN /\ sessionId' = stored.sid
            /\ sessionActive' = TRUE
            /\ currentView' = IF stored.view # "none" THEN stored.view ELSE "session"
            /\ requests' = SetToBag({Request("status", stored.sid, "-")})
       ELSE /\ sessionId' = NoSession
            /\ sessionActive' = FALSE
            /\ currentView' = "session"
            /\ requests' = EmptyBag
    /\ roundInputs' = DefaultRounds
    /\ pipelineSettings' = UpdatePipelineSettings(ModeWorkerCount(currentMode), DefaultRounds)
    /\ UNCHANGED <<currentMode, nextSid, votePosts, finalizeOpened, stored, checkpoint,
                   sessionConfig>>
    /\ UNCHANGED engine
    /\ currentSwapWorker' = 0
    /\ persona' = InitialPersonas(workers')
    /\ cardPersona' = InitialPersonas(workers')
    /\ UNCHANGED <<serverPersona, auditSwaps>>
    /\ UNCHANGED serviceVars

\* A page load that restores whatever session is stored.
AnySessionVerified(r, ok) == TRUE

\* verifySession: the status call succeeded and returned the session id held
\* in state.sessionId.
VerifySession(r, ok) == ok /\ r.sid = sessionId

\* The DOMContentLoaded handler after verifySession: a confirmed session goes
\* on to restoreFullSession's GET /full-state; otherwise the stored state is
\* cleared and the session forgotten.  verifySession is true when the status
\* call returns the session id held in state.sessionId.
VerifySessionResponse(r, ok) ==
    /\ r \in InFlight("status")
    /\ ok => r.sid \in 1..nextSid
    /\ LET valid == VerifySession(r, ok)
       IN  IF valid
           THEN /\ requests' = Answer(r) (+) SetToBag({Request("full-state", sessionId, "-")})
                /\ UNCHANGED <<sessionId, sessionActive, stored>>
           ELSE /\ requests' = Answer(r)
                /\ sessionId' = NoSession
                /\ sessionActive' = FALSE
                /\ stored' = ClearSessionState
    /\ lastAlert' = "none"
    /\ UNCHANGED <<currentMode, configWorkerCount, workerCountInput, workers,
                   currentView, candidates, diversifyEnabled, modals, logEntries,
                   streams, nextSid, votePosts, finalizeOpened, finalContent,
                   checkpoint, restoreTimers>>
    /\ UNCHANGED engine
    /\ UNCHANGED settingsVars
    /\ UNCHANGED swapVars
    /\ UNCHANGED serviceVars
    /\ UNCHANGED votingState
    /\ UNCHANGED chat
    /\ UNCHANGED tokenStats
    /\ UNCHANGED roundModal
    /\ UNCHANGED activeView

\* The timers restoreFullSession sets for a session suspended at this
\* checkpoint: the log after 100 ms, the voting view or the round feedback
\* modal after 150 ms.
RestoreTimersFor(cp) ==
    <<"log">> \o (IF cp.kind = "user_voting" THEN <<"voting">>
                  ELSE IF cp.kind = "round" THEN <<"round">>
                  ELSE << >>)

\* The bindings of state.workers after restoreFullSession took over the
\* server's persona of every slot that has one.
RestoredPersonas(local, server) ==
    [i \in DOMAIN local |->
        IF i \in DOMAIN server /\ server[i] # 0 THEN server[i] ELSE local[i]]

\* restoreFullSession after GET /full-state: at user_voting the candidates are
\* restored, the timers are set and the diversify button is enabled; a failed
\* call restores nothing.
RestoreFullSessionResponse(r, ok) ==
    /\ r \in InFlight("full-state")
    /\ ok => r.sid \in 1..nextSid
    /\ requests' = Answer(r)
    /\ IF ok
       THEN /\ candidates' = IF checkpoint[r.sid].kind = "user_voting"
                             THEN checkpoint[r.sid].cand ELSE candidates
            /\ restoreTimers' =
                 restoreTimers \o
                 [i \in 1..Len(RestoreTimersFor(checkpoint[r.sid])) |->
                     [timer |-> RestoreTimersFor(checkpoint[r.sid])[i], sid |-> r.sid]]
            /\ diversifyEnabled' = TRUE
       ELSE UNCHANGED <<candidates, restoreTimers, diversifyEnabled>>
    /\ lastAlert' = "none"
    /\ UNCHANGED <<sessionId, sessionActive, currentMode, configWorkerCount,
                   workerCountInput, workers, currentView, modals, logEntries,
                   streams, nextSid, votePosts, finalizeOpened, finalContent,
                   stored, checkpoint>>
    /\ UNCHANGED engine
    /\ UNCHANGED settingsVars
    /\ persona' = IF ok THEN RestoredPersonas(persona, serverPersona[r.sid]) ELSE persona
    /\ UNCHANGED <<currentSwapWorker, cardPersona, serverPersona, auditSwaps>>
    /\ UNCHANGED serviceVars
    /\ UNCHANGED votingState
    /\ UNCHANGED chat
    /\ UNCHANGED tokenStats
    /\ UNCHANGED roundModal
    /\ UNCHANGED activeView

\* The next timer of restoreFullSession fires: the log is replaced by the
\* server's entries and the restore is logged; the voting view is shown; the
\* round feedback modal is shown.
RestoreTimer ==
    /\ restoreTimers # << >>
    /\ restoreTimers' = Tail(restoreTimers)
    /\ LET timer == Head(restoreTimers).timer
       IN  /\ logEntries' = IF timer = "log"
                            THEN AppendLog(PopulateLogFromEntries(ServerLog(Head(restoreTimers).sid)), "system",
                                           "Session state restored from server", "info")
                            ELSE logEntries
           /\ currentView' = IF timer = "voting" THEN "voting" ELSE currentView
           /\ activeView' = IF timer = "voting" THEN "voting" ELSE activeView
           /\ votingState' = IF timer = "voting" THEN BuildVotingUI(candidates)
                              ELSE votingState
           /\ stored' = IF timer = "voting"
                        THEN SaveSessionState(sessionId, sessionActive, "voting")
                        ELSE stored
           /\ modals' = IF timer = "round" THEN modals \cup {"round"} ELSE modals
    /\ lastAlert' = "none"
    /\ UNCHANGED <<sessionId, sessionActive, currentMode, configWorkerCount,
                   workerCountInput, workers, candidates, diversifyEnabled, streams,
                   requests, nextSid, votePosts, finalizeOpened, finalContent,
                   checkpoint>>
    /\ UNCHANGED engine
    /\ UNCHANGED settingsVars
    /\ UNCHANGED swapVars
    /\ UNCHANGED serviceVars
    /\ UNCHANGED chat
    /\ UNCHANGED tokenStats
    /\ UNCHANGED roundModal

FinalizeTypes == {"stage_start", "stage_complete", "final_output", "error", "unparsable"}
\* The worker counts a user types into #setting-worker-count.
TypedCounts == 1..5

\* The events any open stream may deliver (the inputs of the onmessage handlers).
AllEvents == UNION {PipelineEvents(s) : s \in BagToSet(streams)}

\* A tokens_update event with a token payload reaches handlePipelineEvent.
TokensUpdate(tokenData) ==
    /\ tokenStats.callCount < MaxCalls
    /\ tokenStats' = UpdateTokenStats(tokenStats, tokenData)
    /\ UNCHANGED <<exceptTokens, votingState, chat, serviceVars, roundModal>>

\* A click on the reset button of the token statistics.
ResetTokenStats ==
    /\ tokenStats' = NoTokenStats
    /\ UNCHANGED <<exceptTokens, votingState, chat, serviceVars, roundModal>>

\* An awaiting_round_feedback event for round r of t: the rounds are kept and
\* the round-feedback modal is given its continue button.
ShowRoundFeedbackModal(r, t) ==
    /\ roundModal' = [round |-> r, total |-> t, button |-> ContinueButton(r, t),
                      announced |-> "none"]
    /\ UNCHANGED <<exceptTokens, votingState, chat, serviceVars, tokenStats>>

\* submitRoundFeedback logs the continuation after its POST.
LogContinuation(skipToSynthesis) ==
    /\ roundModal.button # "none"
    /\ roundModal' =
         [roundModal EXCEPT !.announced =
             ContinueLine(skipToSynthesis, roundModal.round, roundModal.total)]
    /\ UNCHANGED <<exceptTokens, votingState, chat, serviceVars, tokenStats>>

\* A click on a navigation button: showView(viewName).
ShowView(viewName) ==
    /\ currentView' = viewName
    /\ activeView' = viewName
    /\ stored' = SaveSessionState(sessionId, sessionActive, viewName)
    /\ UNCHANGED <<sessionId, sessionActive, currentMode, configWorkerCount,
                   workerCountInput, workers, candidates, diversifyEnabled, modals,
                   logEntries, streams, requests, nextSid, votePosts, finalizeOpened,
                   lastAlert, finalContent, checkpoint, restoreTimers>>
    /\ UNCHANGED <<engine, settingsVars, swapVars, serviceVars, votingState, chat,
                   tokenStats, roundModal>>

Next ==
    \/ \E p \in {"", "prompt"} : StartSession(p)
    \/ \E r \in BagToSet(requests), ok \in BOOLEAN : StartSessionResponse(r, ok)
    \/ \E s \in BagToSet(streams), ev \in AllEvents : RunOnMessage(s, ev)
    \/ \E s \in BagToSet(streams), ev \in AllEvents : ContinueOnMessage(s, ev)
    \/ \E s \in BagToSet(streams), ev \in AllEvents : DiversifyOnMessage(s, ev)
    \/ \E s \in BagToSet(streams) : PipelineOnError(s)
    \/ \E s \in BagToSet(streams) : DiversifyOnError(s)
    \/ DiversifyWorkers
    \/ \E k \in FeedbackKinds : SubmitFeedback(k)
    \/ \E r \in BagToSet(requests), ok \in BOOLEAN : SubmitFeedbackResponse(r, ok)
    \/ SubmitVotes
    \/ \E r \in BagToSet(requests), ok \in BOOLEAN : SubmitVotesResponse(r, ok)
    \/ \E s \in BagToSet(streams), type \in FinalizeTypes : FinalizeOnMessage(s, type)
    \/ \E s \in BagToSet(streams) : FinalizeOnError(s)
    \/ \E r \in BagToSet(requests), ok \in BOOLEAN : SubmitFinalFeedbackResponse(r, ok)
    \/ EndCouncil
    \/ \E m \in Modes : SetMode(m)
    \/ \E r \in BagToSet(requests), ok \in BOOLEAN : SetModeResponse(r, ok)
    \/ \E c \in TypedCounts : WorkerCountChange(c)
    \/ AddWorker
    \/ ClearLogClick
    \/ Reload
    \/ \E r \in BagToSet(requests), ok \in BOOLEAN : VerifySessionResponse(r, ok)
    \/ \E r \in BagToSet(requests), ok \in BOOLEAN : RestoreFullSessionResponse(r, ok)
    \/ RestoreTimer
    \/ EngineStep
    \/ \E which \in {"refinement", "argument"}, v \in TypedRounds : RoundsChange(which, v)
    \/ \E w \in 1..4 : OpenSwapModal(w)
    \/ CloseSwapModal
    \/ \E p \in Personas : ConfirmSwap(p)
    \/ \E r \in BagToSet(requests), ok \in BOOLEAN : ConfirmSwapResponse(r, ok)
    \/ \E c \in 1..MaxCards, rank \in Ranks : SetVote(c, rank)
    \/ \E rating \in 0..5 : SetPromptRating(rating)
    \/ \E text \in {"", " ", "text"} : TypeFeedback(text)
    \/ \E tokenData \in TokenData : TokensUpdate(tokenData)
    \/ ResetTokenStats
    \/ \E viewName \in {"session", "settings"} : ShowView(viewName)
    \/ \E r \in 1..MaxRound, t \in 1..MaxRound : ShowRoundFeedbackModal(r, t)
    \/ \E skipToSynthesis \in BOOLEAN : LogContinuation(skipToSynthesis)
    \/ \E w \in 1..4 : WorkerStart(w)
    \/ \E w \in 1..4, payload \in Payloads : WorkerComplete(w, payload)
    \/ AggregatorStep
    \/ PublisherStep

Spec == Init /\ [][Next]_vars

\* Each specification below restricts Next to the handlers of one area of the
\* client, so each of its behaviours is a behaviour of Spec.

\* The run and continue streams with the feedback checkpoints.
NextRun ==
    \/ \E p \in {"", "prompt"} : StartSession(p)
    \/ \E r \in BagToSet(requests), ok \in BOOLEAN : StartSessionResponse(r, ok)
    \/ \E s \in BagToSet(streams), ev \in AllEvents : RunOnMessage(s, ev)
    \/ \E s \in BagToSet(streams), ev \in AllEvents : ContinueOnMessage(s, ev)
    \/ \E s \in BagToSet(streams) : PipelineOnError(s)
    \/ \E k \in FeedbackKinds : SubmitFeedback(k)
    \/ \E r \in BagToSet(requests), ok \in BOOLEAN : SubmitFeedbackResponse(r, ok)

SpecRun == Init /\ [][NextRun]_vars

\* The diversify stream next to the run stream.
NextDiversify ==
    \/ \E p \in {"", "prompt"} : StartSession(p)
    \/ \E r \in BagToSet(requests), ok \in BOOLEAN : StartSessionResponse(r, ok)
    \/ \E s \in BagToSet(streams), ev \in AllEvents : RunOnMessage(s, ev)
    \/ \E s \in BagToSet(streams), ev \in AllEvents : DiversifyOnMessage(s, ev)
    \/ \E s \in BagToSet(streams) : PipelineOnError(s)
    \/ \E s \in BagToSet(streams) : DiversifyOnError(s)
    \/ DiversifyWorkers

SpecDiversify == Init /\ [][NextDiversify]_vars

\* The handlers of the vote and finalize flow, with the session start and the
\* run stream that lead to the voting view.
NextVoting ==
    \/ \E p \in {"", "prompt"} : StartSession(p)
    \/ \E r \in BagToSet(requests), ok \in BOOLEAN : StartSessionResponse(r, ok)
    \/ \E s \in BagToSet(streams), ev \in AllEvents : RunOnMessage(s, ev)
    \/ \E s \in BagToSet(streams) : PipelineOnError(s)
    \/ SubmitVotes
    \/ \E r \in BagToSet(requests), ok \in BOOLEAN : SubmitVotesResponse(r, ok)
    \/ \E s \in BagToSet(streams), type \in FinalizeTypes : FinalizeOnMessage(s, type)
    \/ \E s \in BagToSet(streams) : FinalizeOnError(s)
    \/ \E r \in BagToSet(requests), ok \in BOOLEAN : SubmitFinalFeedbackResponse(r, ok)
    \/ EndCouncil

SpecVoting == Init /\ [][NextVoting]_vars

\* The handlers of the settings: RAM mode and worker count, with the session
\* start and end that they are guarded by.
NextSettings ==
    \/ \E p \in {"", "prompt"} : StartSession(p)
    \/ \E r \in BagToSet(requests), ok \in BOOLEAN : StartSessionResponse(r, ok)
    \/ EndCouncil
    \/ \E m \in Modes : SetMode(m)
    \/ \E r \in BagToSet(requests), ok \in BOOLEAN : SetModeResponse(r, ok)
    \/ \E c \in TypedCounts : WorkerCountChange(c)
    \/ AddWorker

SpecSettings == Init /\ [][NextSettings]_vars

\* The run stream with the end of the session and the clear-log button.
NextLog ==
    \/ \E p \in {"", "prompt"} : StartSession(p)
    \/ \E r \in BagToSet(requests), ok \in BOOLEAN : StartSessionResponse(r, ok)
    \/ \E s \in BagToSet(streams), ev \in AllEvents : RunOnMessage(s, ev)
    \/ \E s \in BagToSet(streams) : PipelineOnError(s)
    \/ EndCouncil
    \/ ClearLogClick

SpecLog == Init /\ [][NextLog]_vars

\* The page reload with the restore of a stored session, next to the run and
\* continue streams that bring the session to its checkpoints.
NextReload ==
    \/ \E p \in {"", "prompt"} : StartSession(p)
    \/ \E r \in BagToSet(requests), ok \in BOOLEAN : StartSessionResponse(r, ok)
    \/ \E s \in BagToSet(streams), ev \in AllEvents : RunOnMessage(s, ev)
    \/ \E s \in BagToSet(streams), ev \in AllEvents : ContinueOnMessage(s, ev)
    \/ \E k \in FeedbackKinds : SubmitFeedback(k)
    \/ \E r \in BagToSet(requests), ok \in BOOLEAN : SubmitFeedbackResponse(r, ok)
    \/ Reload
    \/ \E r \in BagToSet(requests), ok \in BOOLEAN : VerifySessionResponse(r, ok)
    \/ \E r \in BagToSet(requests), ok \in BOOLEAN : RestoreFullSessionResponse(r, ok)
    \/ RestoreTimer

SpecReload == Init /\ [][NextReload]_vars

\* The life of a session on the page: start, the run stream, the end of the
\* council and page loads with their session restore.
NextSession ==
    \/ \E p \in {"", "prompt"} : StartSession(p)
    \/ \E r \in BagToSet(requests), ok \in BOOLEAN : StartSessionResponse(r, ok)
    \/ \E s \in BagToSet(streams), ev \in AllEvents : RunOnMessage(s, ev)
    \/ \E s \in BagToSet(streams) : PipelineOnError(s)
    \/ EndCouncil
    \/ Reload
    \/ \E r \in BagToSet(requests), ok \in BOOLEAN : VerifySessionResponse(r, ok)
    \/ \E r \in BagToSet(requests), ok \in BOOLEAN : RestoreFullSessionResponse(r, ok)
    \/ RestoreTimer

SpecSession == Init /\ [][NextSession]_vars

\* The Stage Engine on its own: a session of any configuration run from
\* start to completion.
NextEngine ==
    \/ \E r \in RefinementRounds, c \in CollaborationRounds, a \in ArgumentRounds :
          EngineStart(r, c, a, 2) /\ UNCHANGED clientVars
    \/ EngineInvoke /\ UNCHANGED clientVars
    \/ \E slot \in engine.inflight : EngineReturn(slot) /\ UNCHANGED clientVars
    \/ EngineRound /\ UNCHANGED clientVars
    \/ \E level \in CompatibilityLevels : EngineClassify(level) /\ UNCHANGED clientVars
    \/ EngineStage /\ UNCHANGED clientVars
    \/ \E skip \in BOOLEAN : EngineResume(skip) /\ UNCHANGED clientVars

SpecEngine == Init /\ [][NextEngine]_vars

\* The Stage Engine's worker invocations: sessions of every worker count,
\* with one or two rounds per round stage.
NextWorkers ==
    \/ \E r \in 1..2, c \in 1..2, a \in 1..2, k \in WorkerCounts :
          EngineStart(r, c, a, k) /\ UNCHANGED clientVars
    \/ EngineInvoke /\ UNCHANGED clientVars
    \/ \E slot \in engine.inflight : EngineReturn(slot) /\ UNCHANGED clientVars
    \/ EngineRound /\ UNCHANGED clientVars
    \/ \E level \in CompatibilityLevels : EngineClassify(level) /\ UNCHANGED clientVars
    \/ EngineStage /\ UNCHANGED clientVars
    \/ \E skip \in BOOLEAN : EngineResume(skip) /\ UNCHANGED clientVars

SpecWorkers == Init /\ [][NextWorkers]_vars

\* The settings that go into a start request, the mode switch and the start
\* of a session.
NextConfig ==
    \/ \E p \in {"", "prompt"} : StartSession(p)
    \/ \E r \in BagToSet(requests), ok \in BOOLEAN : StartSessionResponse(r, ok)
    \/ \E m \in Modes : SetMode(m)
    \/ \E r \in BagToSet(requests), ok \in BOOLEAN : SetModeResponse(r, ok)
    \/ AddWorker
    \/ \E which \in {"refinement", "argument"}, v \in TypedRounds : RoundsChange(which, v)

SpecConfig == Init /\ [][NextConfig]_vars

\* The swap modal before and during a session.
NextSwap ==
    \/ \E p \in {"", "prompt"} : StartSession(p)
    \/ \E r \in BagToSet(requests), ok \in BOOLEAN : StartSessionResponse(r, ok)
    \/ \E w \in 1..4 : OpenSwapModal(w)
    \/ CloseSwapModal
    \/ \E p \in Personas : ConfirmSwap(p)
    \/ \E r \in BagToSet(requests), ok \in BOOLEAN : ConfirmSwapResponse(r, ok)

SpecSwap == Init /\ [][NextSwap]_vars

\* The Vote Aggregator on its own: any machine scores and human ranks of two
\* or three candidates.
NextAggregate ==
    \/ \E n \in 2..3 : \E machine \in [1..n -> MachineScores], rank \in [1..n -> Ranks] :
          CollectVotes(n, machine, rank) /\ UNCHANGED <<exceptServices, publisher, votingState, chat>>
    \/ AggregateVotes /\ UNCHANGED <<exceptServices, publisher, votingState, chat>>

SpecAggregate == Init /\ [][NextAggregate]_vars

\* The Event Publisher and one consumer that connects, loses the connection
\* and connects again.
NextPublisher ==
    \/ Publish /\ UNCHANGED <<exceptServices, ballot, outcome, votingState, chat>>
    \/ Connect /\ UNCHANGED <<exceptServices, ballot, outcome, votingState, chat>>
    \/ Send /\ UNCHANGED <<exceptServices, ballot, outcome, votingState, chat>>
    \/ Receive /\ UNCHANGED <<exceptServices, ballot, outcome, votingState, chat>>
    \/ Disconnect /\ UNCHANGED <<exceptServices, ballot, outcome, votingState, chat>>

SpecPublisher == Init /\ [][NextPublisher]_vars

\* The voting view built for any number of candidates and the clicks on the
\* vote buttons of its cards.
NextVotes ==
    \/ \E n \in 0..MaxCards : TransitionToVoting(n)
    \/ \E c \in 1..MaxCards, rank \in Ranks : SetVote(c, rank)
    \/ \E rating \in 0..5 : SetPromptRating(rating)
    \/ \E text \in {"", " ", "text"} : TypeFeedback(text)

SpecVotes == Init /\ [][NextVotes]_vars

\* The worker events of a stream, in any order, for the two workers of a
\* freshly loaded page: a draft, a collaboration output and an event without
\* payload stand for the payloads.
NextChat ==
    \/ \E w \in 1..4 : WorkerStart(w)
    \/ \E w \in 1..4, payload \in {"draft", "collaboration", "none"} :
          WorkerComplete(w, payload)

SpecChat == Init /\ [][NextChat]_vars

\* ------------------------------------------------------------------ claims
\* C1: with an empty candidate list in the voting view, a click on the submit
\* button issues the vote POST.
C1_ZeroCandidatesStillSubmit ==
    [][(SubmitVotes /\ candidates = 0)
          => (\E r \in BagToSet(requests') : r.op = "vote")]_vars

\* C2: once a run, continue or diversify stream has delivered `complete` or an
\* `awaiting_*` event, the client has closed it.
C2_CheckpointClosesStream ==
    \A s \in BagToSet(streams) :
        s.kind \in PipelineKinds => s.last \notin ({"complete"} \cup Awaiting)

\* The streams of a session on which a stage has started and not ended.
StagesInProgress(sid) ==
    {s \in BagToSet(streams) : s.sid = sid /\ s.last = "stage_start"}

C4_VoteOncePerSession ==
    \A sid \in SessionIds : votePosts[sid] <= 1 /\ finalizeOpened[sid] <= 1

\* C5: between the start of a session and its end no step changes the worker
\* slots (their number or their ids).
C5_SlotsFixedDuringSession ==
    [][(sessionActive /\ sessionActive') => workers' = workers]_vars

\* C6: setMode changes state.currentMode and re-initialises the worker cards
\* only in states where state.sessionActive is false.
C6_ModeFixedDuringSession ==
    [][(\E r \in BagToSet(requests) : SetModeResponse(r, TRUE)) => ~sessionActive]_vars

\* C7: the session log is append-only: every step leaves the entries it found
\* in place, as a prefix of the log.
C7_LogAppendOnly ==
    [][IsPrefix(logEntries, logEntries')]_vars

\* C8: an event arriving on a stream of a session that is not the current one
\* (the session was ended) changes neither the log, the candidates, the view
\* nor the feedback modals.
C8_EndedSessionNotConsumed ==
    [][(\E s \in BagToSet(streams), ev \in AllEvents :
            s.sid # sessionId /\ RunOnMessage(s, ev))
          => UNCHANGED <<logEntries, candidates, currentView, modals>>]_vars

\* C9: after an `error` event has been handled on a stream, the stream is closed.
C9_ErrorClosesStream ==
    \A s \in BagToSet(streams) : s.last # "error"

\* A failure in the vote and finalize flow is handled: the vote POST fails,
\* the finalize stream delivers `error` or unparsable data, or the
\* final-feedback POST fails.
VoteFlowFailure ==
    \/ \E r \in BagToSet(requests) : SubmitVotesResponse(r, FALSE)
    \/ \E s \in BagToSet(streams) : FinalizeOnMessage(s, "error")
    \/ \E s \in BagToSet(streams) : FinalizeOnMessage(s, "unparsable")
    \/ \E r \in BagToSet(requests) : SubmitFinalFeedbackResponse(r, FALSE)

\* C10: every failure in the vote and finalize flow shows the user an error.
C10_VoteFlowFailureShown ==
    [][VoteFlowFailure => lastAlert' # "none"]_vars

\* A run or continue stream of the session has delivered `error`.
Errored(sid) ==
    \E s \in BagToSet(streams) :
        s.sid = sid /\ s.kind \in {"run", "continue"} /\ s.last = "error"

\* C11: after an `error` event on a stream of the active session, the session
\* can be resumed without ending it: a feedback modal whose submission opens
\* a continue stream is on display, or such a submission is in flight.
C11_ResumableAfterError ==
    (sessionActive /\ sessionId # NoSession /\ Errored(sessionId))
        => \/ modals # {}
           \/ \E r \in BagToSet(requests) : r.op \in FeedbackKinds /\ r.sid = sessionId

\* The status call of a page load is answered.
StatusAnswered(r, ok) == VerifySessionResponse(r, ok)

\* C12: on page load the stored session is restored only if the status call
\* returns the stored session id; otherwise the stored state is cleared and
\* the client is left without a session, inactive, with start enabled.
C12_RestoreOnlyVerified ==
    [][\A r \in BagToSet(requests), ok \in BOOLEAN :
          StatusAnswered(r, ok) =>
              IF ok /\ r.sid = stored.sid
              THEN /\ sessionId' = stored.sid /\ sessionActive' /\ stored' = stored
                   /\ Request("full-state", stored.sid, "-") \in BagToSet(requests')
              ELSE /\ stored' = NoStored
                   /\ sessionId' = NoSession /\ ~sessionActive' /\ StartEnabled'
                   /\ InFlight("full-state")' = {}]_vars

\* A page load found a stored session the server did not confirm.
C12_StoredSessionRejected ==
    /\ nextSid > 0 /\ stored = NoStored
    /\ sessionId = NoSession /\ ~sessionActive /\ StartEnabled
    /\ requests = EmptyBag /\ restoreTimers = << >>

\* The checkpoint the server holds the session at is on display: the voting
\* view at user_voting, the feedback modal of its kind otherwise.
Presented(cp) ==
    /\ cp.kind = "user_voting" => currentView = "voting"
    /\ cp.kind \in FeedbackKinds => cp.kind \in modals

\* C13: when the restore of a server-confirmed session after a reload has
\* finished, the checkpoint the session is suspended at is presented again.
C13_CheckpointRepresented ==
    [][(RestoreTimer /\ restoreTimers' = << >>) => Presented(checkpoint[sessionId])']_vars

\* A continue stream is opened in this step.
ContinueOpened ==
    \E s \in BagToSet(streams') :
        /\ s.kind = "continue" /\ s.last = "none"
        /\ CopiesIn(s, streams') > CopiesIn(s, streams)

\* In this step the server accepts a feedback POST for the checkpoint its
\* session is suspended at.
FeedbackAccepted ==
    \E r \in BagToSet(requests) :
        /\ r.op \in FeedbackKinds
        /\ r.sid \in SessionIds
        /\ checkpoint[r.sid].kind = r.op
        /\ checkpoint'[r.sid].kind = "none"
        /\ requests' = Answer(r)

\* A run or continue stream of a session suspended at a feedback checkpoint
\* delivers the start of a stage.
StageStartedWhileHalted ==
    \E s \in BagToSet(streams), ev \in AllEvents :
        /\ RunOnMessage(s, ev) \/ ContinueOnMessage(s, ev)
        /\ ev.type = "stage_start"
        /\ s.sid \in SessionIds
        /\ checkpoint[s.sid].kind \in FeedbackKinds

\* C14: the pipeline halts at a feedback checkpoint until it is resumed: a
\* continue stream is opened only when the feedback POST for the checkpoint
\* has succeeded, and no stage is started on a run or continue stream while
\* the session is suspended at the checkpoint.
C14_HaltsUntilResumed ==
    [][(ContinueOpened => FeedbackAccepted) /\ ~StageStartedWhileHalted]_vars

\* The session was resumed from a feedback checkpoint and the continue stream
\* has started the next stage.
C14_ResumedStageStarted ==
    \E s \in BagToSet(streams) :
        s.kind = "continue" /\ s.sid = sessionId /\ s.last = "stage_start"

\* C15: a session configured with argument_rounds = 1 is at ai_voting only
\* after exactly one awaiting_argument_feedback checkpoint, and answering
\* that checkpoint without skip leads to ai_voting, not to another round.
C15_OneArgumentCheckpoint ==
    [][engine.A = 1 =>
          /\ engine'.stage = "ai_voting" => engine'.checkpoints["argumentation_round"] = 1
          /\ (engine.stage = "argumentation_round" /\ EngineResume(FALSE))
                => engine'.stage = "ai_voting"]_vars

\* A session with argument_rounds = 1 has reached ai_voting by answering its
\* argument checkpoint.
C15_VotingAfterOneRound ==
    /\ engine.A = 1
    /\ engine.stage = "ai_voting"
    /\ engine.checkpoints["argumentation_round"] = 1

C17_NoSessionOutOfBounds ==
    \A s \in 1..nextSid :
        LET c == sessionConfig[s].cfg
        IN  /\ c.worker_count >= 2 /\ c.worker_count <= 4
            /\ c.worker_count <= (IF sessionConfig[s].mode = "32GB" THEN 4 ELSE 3)
            /\ c.refinement_rounds >= 1 /\ c.refinement_rounds <= 5
            /\ c.argument_rounds >= 1 /\ c.argument_rounds <= 3

\* A start request with four workers in 16GB mode and six refinement rounds
\* was rejected and no session exists.
C17_OutOfBoundsRejected ==
    /\ currentMode = "16GB"
    /\ pipelineSettings.worker_count = 4
    /\ pipelineSettings.refinement_rounds = 6
    /\ lastAlert = "Failed to start session"
    /\ requests = EmptyBag
    /\ nextSid = 0 /\ sessionId = NoSession

\* confirmSwap succeeds for the slot of the swap modal and persona p: the
\* local rebinding without a session, the accepted POST with one.
SwapSucceeds(slot, p) ==
    /\ currentSwapWorker = slot
    /\ slot \in DOMAIN workers
    /\ \/ sessionId = NoSession /\ ConfirmSwap(p)
       \/ \E r \in InFlight("swap") :
             r.slot = slot /\ r.persona = p /\ ConfirmSwapResponse(r, TRUE)

\* C18: after confirmSwap has succeeded for slot s and persona p, with or
\* without a session, the state.workers entry of s has persona p.
C18_SwapRebindsSlot ==
    [][\A slot \in 1..4, p \in Personas :
          SwapSucceeds(slot, p) => persona'[slot] = p]_vars

\* A step of confirmSwap for the slot: the click with persona p selected, or
\* the answer to its POST.
SwapStep(slot, ok) ==
    \/ currentSwapWorker = slot /\ ok /\ \E p \in Personas : ConfirmSwap(p)
    \/ \E r \in InFlight("swap") : r.slot = slot /\ ConfirmSwapResponse(r, ok)

C20_OneLogEntryPerSwap ==
    [][\A r \in InFlight("swap"), ok \in BOOLEAN :
          (ConfirmSwapResponse(r, ok) /\ r.sid \in SessionIds) =>
            /\ Len(ServerLog(r.sid))' = Len(ServerLog(r.sid)) + (IF ok THEN 1 ELSE 0)
            /\ ok => /\ serverPersona'[r.sid][r.slot] = r.persona
                     /\ ServerLog(r.sid)'[Len(ServerLog(r.sid)')] =
                            LogEntry("system", "Persona swapped", "info")]_vars

\* A session on which one swap was accepted and logged.
C20_SwapLogged ==
    /\ sessionId \in SessionIds
    /\ auditSwaps[sessionId] = 1
    /\ serverPersona[sessionId] # persona
    /\ requests = EmptyBag

\* C21: every combined score is machine x 0.4 + human x 0.6 with the human
\* rank spaced linearly over 0-10 by the rank count and skip giving 0 (both
\* sides times 100 n, the machine score in tenths); machine 8.0 with rank
\* 1st of 3 gives 9.2 (5520 / 600).
C21_CombinedScore ==
    outcome # NoOutcome =>
        \A c \in 1..ballot.n :
            /\ 100 * ballot.n * outcome.combined[c] =
                   600 * (4 * ballot.n * ballot.machine[c]
                            + (IF ballot.rank[c] \in 1..ballot.n
                               THEN 600 * (ballot.n - ballot.rank[c] + 1) ELSE 0))
            /\ (ballot.n = 3 /\ ballot.machine[c] = 80 /\ ballot.rank[c] = 1)
                   => outcome.combined[c] = 5520

\* Machine score 8.0 and rank 1st of 3 were aggregated to 9.2.
C21_EightAndFirstOfThree ==
    /\ outcome # NoOutcome
    /\ ballot.n = 3
    /\ ballot.machine[2] = 80 /\ ballot.rank[2] = 1
    /\ outcome.combined[2] = 5520

\* C22: the winner has the highest combined score; among the candidates tied
\* with it the winner has the fewest skip votes, and among those still tied
\* the earliest id.
C22_WinnerRule ==
    outcome # NoOutcome =>
        LET w == outcome.winner
        IN  /\ w \in 1..ballot.n
            /\ \A c \in 1..ballot.n :
                  /\ outcome.combined[c] <= outcome.combined[w]
                  /\ outcome.combined[c] = outcome.combined[w]
                        => /\ SkipVotes(ballot.rank[w]) <= SkipVotes(ballot.rank[c])
                           /\ SkipVotes(ballot.rank[w]) = SkipVotes(ballot.rank[c])
                                 => w <= c

\* Two candidates tied on the combined score, the later one won because the
\* earlier one was skipped.
C22_TieBrokenBySkips ==
    /\ outcome # NoOutcome
    /\ outcome.combined[1] = outcome.combined[2]
    /\ ballot.rank[1] = 0 /\ ballot.rank[2] # 0
    /\ outcome.winner = 2

C25_RanksExclusive ==
    [][/\ \A c \in DOMAIN votingState'.votes : votingState'.votes[c] \in 0..3
       /\ \A r \in 1..3 :
            Cardinality({c \in DOMAIN votingState'.votes : votingState'.votes[c] = r}) <= 1
       /\ \A c \in 1..MaxCards, rank \in 1..3 :
            SetVote(c, rank) =>
              /\ votingState'.votes[c] = rank
              /\ DOMAIN votingState'.votes = DOMAIN votingState.votes \cup {c}
              /\ \A x \in DOMAIN votingState.votes \ {c} :
                    votingState'.votes[x] =
                        IF votingState.votes[x] = rank THEN 0 ELSE votingState.votes[x]]_vars

\* Three candidates hold the ranks 1, 2, 3 and a fourth was reset to 0 or
\* skipped.
C25_ThreeRanked ==
    /\ votingState.cards = 4
    /\ DOMAIN votingState.votes = 1..4
    /\ votingState.votes[1] = 0
    /\ votingState.votes[2] = 3
    /\ votingState.votes[3] = 1
    /\ votingState.votes[4] = 2

\* C26: a feedback checkpoint is answered at most once: no two feedback
\* POSTs of the same kind for the same session are in flight together, and
\* no two continue streams of the same session are open together.
C26_CheckpointAnsweredOnce ==
    /\ \A k \in FeedbackKinds, sid \in SessionIds :
          BagCardinality([r \in {x \in BagToSet(requests) : x.op = k /\ x.sid = sid}
                            |-> CopiesIn(r, requests)]) <= 1
    /\ \A sid \in SessionIds :
          BagCardinality([s \in {x \in BagToSet(streams) : x.kind = "continue" /\ x.sid = sid}
                            |-> CopiesIn(s, streams)]) <= 1

\* C27: at most one session per start: no two POST /session/start are in
\* flight together, none is in flight while a session is active, and no
\* two run streams are open together.
C27_OneStartAtATime ==
    /\ BagCardinality([r \in InFlight("start") |-> CopiesIn(r, requests)]) <= 1
    /\ (sessionActive /\ sessionId # NoSession) => InFlight("start") = {}
    /\ BagCardinality([s \in {x \in BagToSet(streams) : x.kind = "run"}
                          |-> CopiesIn(s, streams)]) <= 1

\* C28: the finalize stream opened after a vote POST and the continue
\* stream opened after a feedback POST are opened on the session id the
\* POST was sent to, whatever happened while the POST was in flight.
C28_StreamForPostedSession ==
    [][\A r \in BagToSet(requests) :
          /\ SubmitVotesResponse(r, TRUE) =>
                CopiesIn(Stream("finalize", r.sid), streams')
                    = CopiesIn(Stream("finalize", r.sid), streams) + 1
          /\ SubmitFeedbackResponse(r, TRUE) =>
                CopiesIn(Stream("continue", r.sid), streams')
                    = CopiesIn(Stream("continue", r.sid), streams) + 1]_vars

\* C29: a feedback POST that fails leaves its checkpoint answerable: the
\* modal of the checkpoint is on display after the failure.
C29_ModalShownAfterFailure ==
    [][\A r \in BagToSet(requests) :
          SubmitFeedbackResponse(r, FALSE) => r.op \in modals']_vars

\* C30: the worker_count of every POST /session/start is the number of
\* worker slots in state.workers when the POST is sent.
C30_WorkerCountIsSlotCount ==
    [][\A p \in {"", "prompt"} :
          StartSession(p) =>
            \A r \in BagToSet(requests') :
                (r.op = "start" /\ CopiesIn(r, requests') > CopiesIn(r, requests))
                    => r.cfg.worker_count = Len(workers)]_vars

C32_OneWorkerActive == Cardinality(chat.active) <= 1

\* Worker 2 was started while worker 1's message was still loading, and
\* worker 2 is the one marked active.
C32_SecondWorkerActive ==
    /\ chat.active = {2}
    /\ \E m \in chat.messages : m.worker = 1 /\ m.loading
    /\ \E m \in chat.messages : m.worker = 2 /\ m.loading

\* C33: a worker_complete for worker w resolves every loading message of
\* w, whatever payload it carries and however many worker_start events for
\* w came before, and changes no message of another worker.
C33_LoadingResolved ==
    [][\A w \in 1..4, payload \in Payloads :
          WorkerComplete(w, payload) =>
            /\ \A m \in chat'.messages : m.worker = w => ~m.loading
            /\ {m \in chat'.messages : m.worker # w}
                  = {m \in chat.messages : m.worker # w}]_vars

\* C34: whenever updateSubmitButton has run (the voting view was built or
\* a vote button clicked), the submit button is enabled exactly when there
\* is a vote with a rank above 0, non-blank feedback, a prompt rating that
\* was given (above 0) or a candidate; with none of these it is disabled.
C34_SubmitEnabledOnInteraction ==
    [][((\E n \in 0..MaxCards : TransitionToVoting(n))
          \/ (\E c \in 1..MaxCards, rank \in Ranks : SetVote(c, rank)))
        => (~votingState'.submitDisabled <=>
              \/ \E c \in DOMAIN votingState'.votes : votingState'.votes[c] > 0
              \/ votingState'.overallFeedback \notin {"", " "}
              \/ votingState'.promptRating > 0
              \/ candidates' > 0)]_vars

\* The token statistics on their own: token payloads arrive and the
\* statistics are reset.
NextTokens ==
    \/ \E tokenData \in TokenData : TokensUpdate(tokenData)
    \/ ResetTokenStats

SpecTokens == Init /\ [][NextTokens]_vars

\* C35: every updateTokenStats call adds the call's own total (total_tokens
\* if the payload has one, else input_tokens + output_tokens) to
\* totalTokens, so that between two resets totalTokens is the sum of the
\* calls' totals and never decreases, and adds one to callCount.
C35_TotalIsSumOfCalls ==
    [][\A tokenData \in TokenData :
          TokensUpdate(tokenData) =>
              /\ tokenStats'.totalTokens =
                     tokenStats.totalTokens
                       + (IF tokenData.total_tokens # Undefined
                          THEN tokenData.total_tokens
                          ELSE tokenData.input_tokens + tokenData.output_tokens)
              /\ tokenStats'.totalTokens >= tokenStats.totalTokens
              /\ tokenStats'.callCount = tokenStats.callCount + 1]_vars

\* The round-feedback modal on its own: it is shown for a round and its
\* feedback is submitted.
NextRounds ==
    \/ \E r \in 1..MaxRound, t \in 1..MaxRound : ShowRoundFeedbackModal(r, t)
    \/ \E skipToSynthesis \in BOOLEAN : LogContinuation(skipToSynthesis)

SpecRounds == Init /\ [][NextRounds]_vars

\* C36: the round-feedback modal shown for round r of t has the button
\* 'Continue to Round r+1' exactly when r < t and 'Proceed to Synthesis'
\* exactly when r >= t, and a submit that does not skip announces round
\* r+1 in the log exactly when r < t.
C36_ButtonAgreesWithLog ==
    roundModal.button # "none" =>
        /\ roundModal.button = "Continue to Round" <=> roundModal.round < roundModal.total
        /\ roundModal.button = "Proceed to Synthesis" <=> roundModal.round >= roundModal.total
        /\ roundModal.announced \in {"round", "synthesis"} =>
              (roundModal.announced = "round" <=> roundModal.round < roundModal.total)

\* The views of a page: sessions are started, run to voting, ended and
\* restored on page load, and the navigation buttons are clicked.
NextViews ==
    \/ \E p \in {"", "prompt"} : StartSession(p)
    \/ \E r \in BagToSet(requests), ok \in BOOLEAN : StartSessionResponse(r, ok)
    \/ \E s \in BagToSet(streams), ev \in AllEvents : RunOnMessage(s, ev)
    \/ \E s \in BagToSet(streams) : PipelineOnError(s)
    \/ EndCouncil
    \/ Reload
    \/ \E r \in BagToSet(requests), ok \in BOOLEAN : VerifySessionResponse(r, ok)
    \/ \E r \in BagToSet(requests), ok \in BOOLEAN : RestoreFullSessionResponse(r, ok)
    \/ RestoreTimer
    \/ \E viewName \in {"session", "settings"} : ShowView(viewName)

SpecViews == Init /\ [][NextViews]_vars

\* C37: the view on display is always the one state.currentView names, and
\* the one kept in sessionStorage when a session is stored.
C37_CurrentViewDisplayed ==
    /\ activeView = currentView
    /\ stored.sid # NoSession => stored.view = activeView

====
